---- MODULE Spec2Model ----
(***************************************************************************)
(* Apollo 30K fleet control loop: Agent Registry (D1), Health Monitor,     *)
(* Self-Healer, Auto-Scaler.  Each component is modelled from its source;  *)
(* the registry is the shared table `agents`, the other components read it *)
(* and issue registry mutations.                                           *)
(*                                                                         *)
(* Time is counted in whole seconds (`now`); Date.now() is now * 1000.     *)
(* An optional value (Date | null, Date | undefined) is <<>> or <<v>>.     *)
(* An agent id is the triple <<capability, zone, random>> that the         *)
(* healer's id template `${capability}-${zone}-${random}` builds; agents   *)
(* registered by other means draw their ids from the same space, so that   *)
(* a generated id can collide with one already in the table.               *)
(* Agent fields `core` and `createdAt` take no part in any decision and    *)
(* are left out of the record.                                             *)
(***************************************************************************)
EXTENDS Integers, Sequences, FiniteSets, TLC

VARIABLES
    agents,             \* the D1 `agents` table: id -> row
    now,                \* wall clock, seconds
    cfg,                \* AutoScaler.config
    lastScalingAction,  \* AutoScaler.lastScalingAction: <<>> or <<seconds>>
    scalerResult,       \* what the last makeDecision / runScalingCycle call returned
    lastExecuted,       \* history: when executeScaling last completed a non-none decision
    restartCounts,      \* SelfHealer.restartCounts: a Map, id -> count
    healingHistory,     \* SelfHealer.healingHistory
    healResult,         \* what the last healAgent call did and returned
    consecFails,        \* history: id -> restartAgent calls that failed in a row
    replaced,           \* history: ids whose replacement healAgent registered
    restartedAfter,     \* history: ids restartAgent ran on after their replacement
    monThreshold,       \* HealthMonitor.heartbeatThresholdMinutes
    monPc,              \* where runHealthCheckCycle stands
    monMetrics,         \* its local `metrics`
    monStale,           \* its local `staleAgents` (ids)
    monTodo,            \* the part of staleAgents its loop has not reached
    monActions,         \* its local `actionsTaken`
    monResult,          \* what the last completed cycle returned
    expectedStale,      \* history: the active agents with no heartbeat, or one older
                        \* than the threshold, at the moment the stale set was
                        \* fetched, each with the heartbeat it had then
    errWritten,         \* history: ids this cycle applied updateStatus(id, 'error') to
    kv,                 \* AgentRegistryCache's KV namespace: id -> entry
    cacheGet,           \* the getAgent call of the cache that is under way, if any
    cacheMut,           \* its registerAgent / updateHeartbeat call under way, if any
    registerResult,     \* what the last registerAgent call through the cache did
    queues,             \* JobQueueManager.queues: zone -> the jobs the queue holds
    lastJob,            \* history: the last job a worker finished, its agent and outcome
    healAllPending,     \* healAllFailed: the agents whose healAgent has not settled
    healAllActions,     \* the HealingActions its healAgent calls resolved with
    healAllRejected,    \* the agents whose healAgent rejected
    healAllResult,      \* what the last healAllFailed call returned
    healHung,           \* the agents whose healAgent awaits a call that never responds
    hbInFlight,         \* updateHeartbeat calls that took their timestamp and whose
                        \* UPDATE has not reached the table
    failedAt,           \* history: id -> when incrementTasksFailed last recorded a failure
    scaleInFlight,      \* runScalingCycle calls that decided and have not yet executed
    healInFlight,       \* healAgent calls past their synchronous start, awaiting
    statsHistory,       \* the healing history as getStats reads it, each entry with
                        \* its executionTime and (history) the time it was pushed
    statsResult,        \* what the last getStats call returned
    states,             \* StateManager.states: key -> StateItem
    syncing,            \* the syncToCloudflareKV call under way, if any
    cloudflareKv,       \* the Cloudflare KV namespace StateManager uploads to
    healthKv,           \* the worker's KV entries health:latest and health:stale
    httpResponse        \* what the last fetch() call of the worker answered

scalerVars == <<cfg, lastScalingAction, scalerResult, lastExecuted>>
healerVars == <<restartCounts, healingHistory, healResult, consecFails, replaced,
                restartedAfter>>
monitorVars == <<monThreshold, monPc, monMetrics, monStale, monTodo, monActions,
                 monResult, expectedStale, errWritten>>
cacheVars == <<kv, cacheGet, cacheMut, registerResult>>
routerVars == <<queues, lastJob>>
healAllVars == <<healAllPending, healAllActions, healAllRejected, healAllResult, healHung>>
heartbeatVars == <<hbInFlight, failedAt>>
overlapVars == <<scaleInFlight, healInFlight>>
statsVars == <<statsHistory, statsResult>>
stateManagerVars == <<states, syncing, cloudflareKv>>
httpVars == <<healthKv, httpResponse>>
otherVars == <<overlapVars, statsVars, stateManagerVars, httpVars>>
vars == <<agents, now, scalerVars, healerVars, monitorVars, cacheVars, routerVars,
          healAllVars, heartbeatVars, otherVars>>

----------------------------------------------------------------------------
(* Bounds of the model *)

MaxTime == 3            \* the clock stops here
MaxHistory == 5         \* healAgent calls that append to healingHistory
MaxThreshold == 1       \* heartbeatThresholdMinutes ranges over 0..MaxThreshold
MaxMonitorTicks == 3    \* the monitor's clock advances this many times
TickSeconds == 30       \* by this many seconds
MaxTasksFailed == 1     \* incrementTasksFailed calls per agent
MaxTasksCompleted == 1  \* incrementTasksCompleted calls per agent
MaxJobs == 2            \* jobs a zone's queue holds at a time
MaxInFlight == 2        \* updateHeartbeat calls under way at a time
MaxStatsHistory == 2    \* entries of the healing history getStats reads
MaxDuration == 2        \* seconds a heal call may take
MaxOverlap == 2         \* runScalingCycle / healAgent calls under way at a time
MaxHeals == 4           \* healAgent calls made while calls may overlap
MaxVersion == 2         \* versions a StateManager key goes through
MaxValue == 1           \* values set under a key: 0..MaxValue
MaxRandom == 1          \* random suffixes of generated ids: 0..MaxRandom
MaxMinAgents == 2       \* config.minAgents ranges over 1..MaxMinAgents
MaxMaxAgents == 4       \* config.maxAgents is 3 or MaxMaxAgents
MaxIncrement == 2       \* config.scaleUpIncrement / scaleDownIncrement: 1..MaxIncrement
CooldownPeriod == 2     \* config.cooldownPeriod, seconds
UpQueueDepth == 10      \* config.scaleUpThreshold.queueDepth
DownQueueDepth == 5     \* config.scaleDownThreshold.queueDepth

(* Program constants *)

MsPerSecond == 1000
QueueDepthDivisor == 10
MAX_RESTART_ATTEMPTS == 3
CacheTtl == 3600        \* expirationTtl, seconds
MinPriority == 1        \* JobSchema: priority min(1)
MaxPriority == 10       \* JobSchema: priority max(10)
SecondsPerMinute == 60
Penalty == 5            \* health_score - 5

----------------------------------------------------------------------------
(* Data *)

ZoneList == <<"railway", "cloudflare", "digitalocean", "pi">>
Zones == {ZoneList[i] : i \in 1..Len(ZoneList)}
Statuses == {"active", "paused", "error", "offline"}
Capabilities == {"infer", "exec"}
Ids == Capabilities \X Zones \X (0..MaxRandom)

Min2(a, b) == IF a <= b THEN a ELSE b
Max2(a, b) == IF a >= b THEN a ELSE b
\* the third argument left out of the minimum
Min3_WithoutThird(a, b, c) == Min2(a, b)

Min3(a, b, c) == Min2(a, Min2(b, c))

\* Date.prototype.toISOString, for a time in milliseconds: the fixed-width fields
\* that differ within the model's range, <<minutes, seconds, milliseconds>>
toISOString(ms) ==
    <<ms \div (SecondsPerMinute * MsPerSecond),
      (ms \div MsPerSecond) % SecondsPerMinute,
      ms % MsPerSecond>>

\* new Date(iso).getTime()
getTime(iso) == iso[1] * SecondsPerMinute * MsPerSecond + iso[2] * MsPerSecond + iso[3]

\* SQL's < on two TEXT values holding ISO timestamps: field by field, left to right
textLess(a, b) ==
    \/ a[1] < b[1]
    \/ a[1] = b[1] /\ a[2] < b[2]
    \/ a[1] = b[1] /\ a[2] = b[2] /\ a[3] < b[3]

\* new Date() at second t, as registerAgent / updateHeartbeat store it
isoNow(t) == toISOString(t * MsPerSecond)

Row(h, cap, z, st, hs, hb, tc, tf, repl) ==
    [hash |-> h, capability |-> cap, zone |-> z, status |-> st,
     healthScore |-> hs, lastHeartbeat |-> hb,
     tasksCompleted |-> tc, tasksFailed |-> tf, replacement |-> repl]

----------------------------------------------------------------------------
(* D1AgentRegistry: queries *)

\* listAgents({zone, status}): the ids of the rows the WHERE clause keeps
listAgents(ag, zone, status) ==
    {id \in DOMAIN ag : ag[id].zone = zone /\ ag[id].status = status}

\* getAgentCount(zone): SELECT COUNT(*) FROM agents WHERE zone = ?
getAgentCount(ag, zone) ==
    Cardinality({id \in DOMAIN ag : ag[id].zone = zone})

\* getAgentCount(): SELECT COUNT(*) FROM agents
getAgentCountAll(ag) == Cardinality(DOMAIN ag)

\* updateAgentStatus: UPDATE agents SET status = ? WHERE id = ?
updateAgentStatus(ag, id, status) ==
    IF id \in DOMAIN ag THEN [ag EXCEPT ![id].status = status] ELSE ag

----------------------------------------------------------------------------
(* AutoScaler *)

ScalingConfigs ==
    {[minAgents |-> mn, maxAgents |-> mx,
      scaleUpQueueDepth |-> UpQueueDepth, scaleDownQueueDepth |-> DownQueueDepth,
      scaleUpIncrement |-> ui, scaleDownIncrement |-> di, cooldownPeriod |-> cd] :
        mn \in {1, MaxMinAgents}, mx \in {3, MaxMaxAgents},
        ui \in {1, MaxIncrement}, di \in {1, MaxIncrement}, cd \in {CooldownPeriod}}

\* queueMetrics.total.total as the queue manager may report it
QueueDepths == {0, UpQueueDepth \div 2, UpQueueDepth + 5, 2 * UpQueueDepth + 5}

getMetrics(qd, ag) == [queueDepth |-> qd, activeAgents |-> getAgentCountAll(ag)]

\* the cooldown compared in seconds against a difference in milliseconds
isInCooldown_SecondsAsMs(last, t, c) ==
    IF last = <<>> THEN FALSE
    ELSE t * MsPerSecond - last[1] * MsPerSecond < c.cooldownPeriod

isInCooldown(last, t, c) ==
    IF last = <<>> THEN FALSE
    ELSE t * MsPerSecond - last[1] * MsPerSecond < c.cooldownPeriod * MsPerSecond

\* the zone counts sorted the other way round: the fullest zone comes out
selectOptimalZone_MostLoaded(ag) ==
    LET n(i) == getAgentCount(ag, ZoneList[i])
        first == CHOOSE i \in 1..Len(ZoneList) :
                    \A j \in 1..Len(ZoneList) : n(i) > n(j) \/ (n(i) = n(j) /\ i <= j)
    IN  ZoneList[first]

\* zoneCounts.sort((a, b) => a.count - b.count)[0]: the sort is stable, so among
\* the zones of least count the first of the list comes out
selectOptimalZone(ag) ==
    LET n(i) == getAgentCount(ag, ZoneList[i])
        first == CHOOSE i \in 1..Len(ZoneList) :
                    \A j \in 1..Len(ZoneList) : n(i) < n(j) \/ (n(i) = n(j) /\ i <= j)
    IN  ZoneList[first]

\* the zone counts sorted the other way round: the emptiest zone comes out
selectScaleDownZone_LeastLoaded(ag) ==
    LET n(i) == getAgentCount(ag, ZoneList[i])
        first == CHOOSE i \in 1..Len(ZoneList) :
                    \A j \in 1..Len(ZoneList) : n(i) < n(j) \/ (n(i) = n(j) /\ i <= j)
    IN  ZoneList[first]

\* zoneCounts.sort((a, b) => b.count - a.count)[0]
selectScaleDownZone(ag) ==
    LET n(i) == getAgentCount(ag, ZoneList[i])
        first == CHOOSE i \in 1..Len(ZoneList) :
                    \A j \in 1..Len(ZoneList) : n(i) > n(j) \/ (n(i) = n(j) /\ i <= j)
    IN  ZoneList[first]

Decision(a, target, z, why) ==
    [action |-> a, targetCount |-> target, zone |-> z, reason |-> why]

makeDecision(metrics, ag, last, t, c) ==
    IF isInCooldown(last, t, c)
    THEN Decision("none", metrics.activeAgents, "railway", "In cooldown period")
    ELSE IF metrics.queueDepth > c.scaleUpQueueDepth /\ metrics.activeAgents < c.maxAgents
    THEN LET increment == Min3(c.scaleUpIncrement,
                               metrics.queueDepth \div QueueDepthDivisor,
                               c.maxAgents - metrics.activeAgents)
         IN  Decision("scale-up", metrics.activeAgents + increment,
                      selectOptimalZone(ag), "Queue depth exceeds threshold")
    ELSE IF metrics.queueDepth < c.scaleDownQueueDepth /\ metrics.activeAgents > c.minAgents
    THEN LET increment == Min2(c.scaleDownIncrement,
                               metrics.activeAgents - c.minAgents)
         IN  Decision("scale-down", metrics.activeAgents - increment,
                      selectScaleDownZone(ag), "Queue depth below threshold")
    ELSE Decision("none", metrics.activeAgents, "railway", "Metrics within normal range")

\* Array.prototype.slice(0, end): how many elements of an array of length len it keeps
sliceCount(len, end) ==
    IF end < 0 THEN Max2(len + end, 0) ELSE Min2(end, len)

\* scaleDown: toRemove = currentCount - targetCount
toRemove(ag, zone, targetCount) == getAgentCount(ag, zone) - targetCount

\* agents.sort((a, b) => a.tasksCompleted - b.tasksCompleted).slice(0, n): the sets a
\* prefix of length n of the sorted list can be (rows of equal tasksCompleted come in
\* the order the SELECT returned them, which the query does not fix)
leastUtilized(ag, cands, n) ==
    {S \in SUBSET cands :
        /\ Cardinality(S) = n
        /\ \A x \in S, y \in cands \ S : ag[x].tasksCompleted <= ag[y].tasksCompleted}

\* the stamp executeScaling leaves after its scaleUp / scaleDown call returned
stampCooldown(last, t) == <<t>>

\* scaleDown's loop; `paused` is the set of agents it reached, `thrown` whether a
\* registry write rejected before the loop ended
scaleDown(zone, targetCount, paused, thrown) ==
    LET cands == listAgents(agents, zone, "active")
        n == sliceCount(Cardinality(cands), toRemove(agents, zone, targetCount))
    IN  /\ \E k \in 0..n :
            /\ thrown = (k < n)
            /\ paused \in leastUtilized(agents, cands, k)
            /\ \E full \in leastUtilized(agents, cands, n) : paused \subseteq full
        /\ agents' = [id \in DOMAIN agents |->
                        IF id \in paused THEN [agents[id] EXCEPT !.status = "paused"]
                        ELSE agents[id]]

\* executeScaling(decision); `thrown` is whether the call rejected
executeScaling(decision, thrown) ==
    IF decision.action = "none"
    THEN /\ thrown = FALSE
         /\ UNCHANGED <<agents, lastScalingAction, lastExecuted>>
    ELSE /\ IF decision.action = "scale-up"
            THEN thrown = FALSE /\ agents' = agents    \* scaleUp only logs
            ELSE \E paused \in SUBSET DOMAIN agents :
                    scaleDown(decision.zone, decision.targetCount, paused, thrown)
         /\ lastScalingAction' =
                IF thrown THEN lastScalingAction ELSE stampCooldown(lastScalingAction, now)
         /\ lastExecuted' = IF thrown THEN lastExecuted ELSE <<now>>

\* runScalingCycle; `thrown` is whether a registry write inside it rejected
ScalingCycle(thrown) ==
    \E qd \in QueueDepths :
        LET metrics == getMetrics(qd, agents)
            decision == makeDecision(metrics, agents, lastScalingAction, now, cfg)
        IN  /\ executeScaling(decision, thrown)
            /\ scalerResult' = [metrics |-> metrics, decision |-> decision,
                                executed |-> decision.action # "none" /\ ~thrown,
                                thrown |-> thrown]
            /\ UNCHANGED <<now, cfg, healerVars, monitorVars,
                   cacheVars, routerVars, healAllVars, heartbeatVars, otherVars>>

\* a cycle all of whose registry calls resolve
RunScalingCycle == ScalingCycle(FALSE)

\* a cycle in which a registry write of scaleDown rejects
FailedScalingCycle == ScalingCycle(TRUE)

\* runScalingCycle up to its call of executeScaling: getMetrics and makeDecision,
\* awaited, while other cycles of the same AutoScaler may be under way
CycleDecide ==
    /\ Cardinality(scaleInFlight) < MaxOverlap
    /\ \E qd \in QueueDepths, k \in 1..MaxOverlap :
        LET metrics == getMetrics(qd, agents)
            decision == makeDecision(metrics, agents, lastScalingAction, now, cfg)
        IN  /\ \A c \in scaleInFlight : c.cycle # k
            /\ scaleInFlight' = scaleInFlight \cup
                    {[cycle |-> k, metrics |-> metrics, decision |-> decision]}
    /\ UNCHANGED <<agents, now, scalerVars, healerVars, monitorVars, cacheVars, routerVars,
                   healAllVars, heartbeatVars, healInFlight, statsVars,
                   stateManagerVars, httpVars>>

\* the rest of a cycle under way: executeScaling(decision) when the decision is not
\* none, and the return
CycleExecute ==
    /\ \E c \in scaleInFlight :
        /\ executeScaling(c.decision, FALSE)
        /\ scalerResult' = [metrics |-> c.metrics, decision |-> c.decision,
                            executed |-> c.decision.action # "none", thrown |-> FALSE]
        /\ scaleInFlight' = scaleInFlight \ {c}
    /\ UNCHANGED <<now, cfg, healerVars, monitorVars, cacheVars, routerVars,
                   healAllVars, heartbeatVars, healInFlight, statsVars,
                   stateManagerVars, httpVars>>

\* makeDecision called on its own, with whatever metrics the caller hands it
MakeDecisionCall ==
    \E qd \in QueueDepths, n \in 0..(MaxMaxAgents + 1) :
        LET metrics == [queueDepth |-> qd, activeAgents |-> n]
            decision == makeDecision(metrics, agents, lastScalingAction, now, cfg)
        IN  /\ scalerResult' = [metrics |-> metrics, decision |-> decision,
                                executed |-> FALSE, thrown |-> FALSE]
            /\ UNCHANGED <<agents, now, cfg, lastScalingAction, lastExecuted, healerVars,
                           monitorVars,
                   cacheVars, routerVars, healAllVars, heartbeatVars, otherVars>>

Tick ==
    /\ now < MaxTime
    /\ now' = now + 1
    /\ UNCHANGED <<agents, scalerVars, healerVars, monitorVars,
                   cacheVars, routerVars, healAllVars, heartbeatVars, otherVars>>

----------------------------------------------------------------------------
(* D1AgentRegistry: writes, under the constraints of the agents table *)

\* the table without the CHECK on health_score
checkHealthScore_Unchecked(hs) == TRUE

\* CHECK(health_score >= 0 AND health_score <= 100)
checkHealthScore(hs) == hs >= 0 /\ hs <= 100

\* the table without UNIQUE on hash
hashUnique_NotEnforced(ag, row) == TRUE

\* hash TEXT NOT NULL UNIQUE
hashUnique(ag, row) == \A i \in DOMAIN ag : ag[i].hash # row.hash

\* the table without its PRIMARY KEY: a row of an id already present is taken
insertAllowed_NoPrimaryKey(ag, id, row) ==
    /\ hashUnique(ag, row)
    /\ row.zone \in Zones
    /\ row.status \in Statuses
    /\ row.healthScore >= 0 /\ row.healthScore <= 100

\* what INSERT INTO agents demands of the new row: id PRIMARY KEY, hash UNIQUE, the
\* CHECKs on zone, status and health_score
insertAllowed(ag, id, row) ==
    /\ id \notin DOMAIN ag
    /\ hashUnique(ag, row)
    /\ row.zone \in Zones
    /\ row.status \in Statuses
    /\ checkHealthScore(row.healthScore)

\* registerAgent: the table after the INSERT went through
registerAgent(ag, id, row) ==
    [i \in DOMAIN ag \cup {id} |-> IF i = id THEN row ELSE ag[i]]

\* updateHeartbeat: UPDATE agents SET last_heartbeat = ?, health_score = 100 WHERE id = ?
updateHeartbeat(ag, id, t) ==
    IF id \in DOMAIN ag
    THEN [ag EXCEPT ![id].lastHeartbeat = <<isoNow(t)>>, ![id].healthScore = 100]
    ELSE ag

\* incrementTasksCompleted: UPDATE agents SET tasks_completed = tasks_completed + 1
\* WHERE id = ?
incrementTasksCompleted(ag, id) ==
    IF id \in DOMAIN ag THEN [ag EXCEPT ![id].tasksCompleted = @ + 1] ELSE ag

\* GREATEST(a, b)
greatest(a, b) == IF a >= b THEN a ELSE b

\* incrementTasksFailed: UPDATE agents SET tasks_failed = tasks_failed + 1,
\* health_score = GREATEST(0, health_score - 5) WHERE id = ?; an UPDATE whose new
\* row fails the table's CHECK is rejected and changes nothing
incrementTasksFailed(ag, id) ==
    LET hs == greatest(0, ag[id].healthScore - Penalty)
    IN  IF id \in DOMAIN ag /\ checkHealthScore(hs)
        THEN [ag EXCEPT ![id].tasksFailed = @ + 1, ![id].healthScore = hs]
        ELSE ag

\* getStaleAgents: SELECT * FROM agents WHERE status = 'active'
\* AND (last_heartbeat < ? OR last_heartbeat IS NULL), ? = the ISO text of
\* Date.now() - minutesThreshold * 60 * 1000
getStaleAgents(ag, minutesThreshold, t) ==
    LET threshold == toISOString(t * MsPerSecond
                                 - minutesThreshold * SecondsPerMinute * MsPerSecond)
    IN  {id \in DOMAIN ag :
            /\ ag[id].status = "active"
            /\ \/ ag[id].lastHeartbeat # <<>> /\ textLess(ag[id].lastHeartbeat[1], threshold)
               \/ ag[id].lastHeartbeat = <<>>}

----------------------------------------------------------------------------
(* Registry calls made by agents and operators *)

RegisterIds == {<<"infer", "railway", 0>>, <<"infer", "pi", 1>>}
RegisterHealthScores == {0 - Penalty, 3, 100, 100 + Penalty}

\* registerAgent(agent) for an agent whose healthScore is one of `scores`: the
\* INSERT goes through, or rejects and leaves the table as it was
Register(scores) ==
    /\ \E id \in RegisterIds, hs \in scores,
          st \in {"active", "paused"}, hb \in {<<>>, <<isoNow(now)>>} :
        LET row == Row(<<0, id[3]>>, id[1], id[2], st, hs, hb, 0, 0, FALSE)
        IN  /\ insertAllowed(agents, id, row)
            /\ agents' = registerAgent(agents, id, row)
    /\ UNCHANGED <<now, scalerVars, healerVars, monitorVars,
                   cacheVars, routerVars, healAllVars, heartbeatVars, otherVars>>

\* updateHeartbeat(id), first half: const now = new Date()
HeartbeatStamp ==
    /\ Cardinality(hbInFlight) < MaxInFlight
    /\ \E id \in DOMAIN agents :
        /\ [id |-> id, at |-> now] \notin hbInFlight
        /\ hbInFlight' = hbInFlight \cup {[id |-> id, at |-> now]}
    /\ UNCHANGED <<agents, now, scalerVars, healerVars, monitorVars,
                   cacheVars, routerVars, healAllVars, failedAt, otherVars>>

\* updateHeartbeat(id), second half: the UPDATE of one of the calls under way
\* reaches the table, carrying the timestamp the call took
HeartbeatWrite ==
    /\ \E h \in hbInFlight :
        /\ agents' = updateHeartbeat(agents, h.id, h.at)
        /\ hbInFlight' = hbInFlight \ {h}
    /\ UNCHANGED <<now, scalerVars, healerVars, monitorVars,
                   cacheVars, routerVars, healAllVars, failedAt, otherVars>>

\* incrementTasksFailed(id), with the time of the failure kept
FailTask ==
    /\ \E id \in DOMAIN agents :
        /\ agents[id].tasksFailed < MaxTasksFailed
        /\ agents' = incrementTasksFailed(agents, id)
        /\ failedAt' = [i \in DOMAIN failedAt \cup {id} |->
                            IF i = id THEN now ELSE failedAt[i]]
    /\ UNCHANGED <<now, scalerVars, healerVars, monitorVars,
                   cacheVars, routerVars, healAllVars, hbInFlight, otherVars>>

\* an operator decommissioning an agent: updateAgentStatus(id, 'offline')
TakeOffline ==
    /\ \E id \in DOMAIN agents :
        /\ agents[id].status # "offline"
        /\ agents' = updateAgentStatus(agents, id, "offline")
    /\ UNCHANGED <<now, scalerVars, healerVars, monitorVars,
                   cacheVars, routerVars, healAllVars, heartbeatVars, otherVars>>

\* a caller that hands registerAgent any healthScore
RegisterAgent == Register(RegisterHealthScores)

\* a caller that registers agents at the schema's default healthScore
RegisterHealthyAgent == Register({100})

UpdateHeartbeat ==
    /\ \E id \in DOMAIN agents : agents' = updateHeartbeat(agents, id, now)
    /\ UNCHANGED <<now, scalerVars, healerVars, monitorVars,
                   cacheVars, routerVars, healAllVars, heartbeatVars, otherVars>>

IncrementTasksFailed ==
    /\ \E id \in DOMAIN agents :
        /\ agents[id].tasksFailed < MaxTasksFailed
        /\ agents' = incrementTasksFailed(agents, id)
    /\ UNCHANGED <<now, scalerVars, healerVars, monitorVars,
                   cacheVars, routerVars, healAllVars, heartbeatVars, otherVars>>

IncrementTasksCompleted ==
    /\ \E id \in DOMAIN agents :
        /\ agents[id].tasksCompleted < MaxTasksCompleted
        /\ agents' = incrementTasksCompleted(agents, id)
    /\ UNCHANGED <<now, scalerVars, healerVars, monitorVars,
                   cacheVars, routerVars, healAllVars, heartbeatVars, otherVars>>

\* updateAgentStatus(id, status) as an operator or a component calls it
UpdateAgentStatus ==
    /\ \E id \in DOMAIN agents, status \in Statuses :
        agents' = updateAgentStatus(agents, id, status)
    /\ UNCHANGED <<now, scalerVars, healerVars, monitorVars,
                   cacheVars, routerVars, healAllVars, heartbeatVars, otherVars>>

----------------------------------------------------------------------------
(* AgentRegistryCache: a KV namespace in front of the registry.  Every method is a
   chain of awaited calls; each awaited call is one step, and calls of other clients
   run between them.  One getAgent and one registerAgent / updateHeartbeat call can
   be under way at a time. *)

\* D1AgentRegistry.getAgent: SELECT * FROM agents WHERE id = ?; <<>> stands for null
getAgent(ag, id) == IF id \in DOMAIN ag THEN <<ag[id]>> ELSE <<>>

\* JSON.stringify(agent) and the parse on the way back: a Date goes through
\* toISOString, the other fields are kept
stringify(row) ==
    [row EXCEPT !.lastHeartbeat =
        IF row.lastHeartbeat = <<>> THEN <<>>
        ELSE <<toISOString(getTime(row.lastHeartbeat[1]))>>]

\* kv.get(`agent:${id}`, 'json'): the entry, unless there is none or its TTL has run out
kvGet(store, id, t) ==
    IF id \in DOMAIN store /\ t < store[id].expires THEN <<store[id].agent>> ELSE <<>>

\* kv.put(`agent:${id}`, JSON.stringify(agent), { expirationTtl: 3600 })
kvPut(store, id, row, t) ==
    [i \in DOMAIN store \cup {id} |->
        IF i = id THEN [agent |-> stringify(row), expires |-> t + CacheTtl] ELSE store[i]]

\* kv.delete(`agent:${id}`)
kvDelete(store, id) == [i \in DOMAIN store \ {id} |-> store[i]]

Call(pc, id, agent) == [pc |-> pc, id |-> id, agent |-> agent]

NoCall == Call("idle", <<>>, <<>>)

RegisterHashes == {<<0, 0>>, <<0, 1>>}

\* getAgent: const cached = await this.kv.get(...); if (cached) return cached
CacheGetLookup ==
    /\ cacheGet.pc = "idle"
    /\ \E id \in RegisterIds :
        LET cached == kvGet(kv, id, now)
        IN  cacheGet' = IF cached # <<>> THEN NoCall    \* returns cached
                        ELSE Call("read", id, <<>>)
    /\ UNCHANGED <<agents, now, scalerVars, healerVars, monitorVars, kv, cacheMut,
                   registerResult, routerVars, healAllVars, heartbeatVars, otherVars>>

\* const agent = await this.registry.getAgent(id)
CacheGetRead ==
    /\ cacheGet.pc = "read"
    /\ LET agent == getAgent(agents, cacheGet.id)
       IN  cacheGet' = IF agent # <<>> THEN Call("put", cacheGet.id, agent)
                       ELSE NoCall    \* returns null
    /\ UNCHANGED <<agents, now, scalerVars, healerVars, monitorVars, kv, cacheMut,
                   registerResult, routerVars, healAllVars, heartbeatVars, otherVars>>

\* await this.kv.put(...); return agent
CacheGetPut ==
    /\ cacheGet.pc = "put"
    /\ kv' = kvPut(kv, cacheGet.id, cacheGet.agent[1], now)
    /\ cacheGet' = NoCall
    /\ UNCHANGED <<agents, now, scalerVars, healerVars, monitorVars, cacheMut,
                   registerResult, routerVars, healAllVars, heartbeatVars, otherVars>>

\* registerAgent: const registered = await this.registry.registerAgent(agent); a
\* rejected INSERT rejects the call before the cache is touched
CacheRegisterInsert ==
    /\ cacheMut.pc = "idle"
    /\ \E id \in RegisterIds, h \in RegisterHashes :
        LET row == Row(h, id[1], id[2], "active", 100, <<>>, 0, 0, FALSE)
            duplicate == id \in DOMAIN agents
                         \/ \E i \in DOMAIN agents : agents[i].hash = h
        IN  IF insertAllowed(agents, id, row)
            THEN /\ agents' = registerAgent(agents, id, row)
                 /\ cacheMut' = Call("cache", id, <<row>>)
                 /\ registerResult' = [called |-> TRUE, id |-> <<id>>, ok |-> TRUE,
                                       duplicate |-> duplicate]
            ELSE /\ registerResult' = [called |-> TRUE, id |-> <<id>>, ok |-> FALSE,
                                       duplicate |-> duplicate]
                 /\ UNCHANGED <<agents, cacheMut>>
    /\ UNCHANGED <<now, scalerVars, healerVars, monitorVars, kv, cacheGet, routerVars,
                   healAllVars, heartbeatVars, otherVars>>

\* await this.kv.put(`agent:${registered.id}`, ...); return registered
CacheRegisterPut ==
    /\ cacheMut.pc = "cache"
    /\ kv' = kvPut(kv, cacheMut.id, cacheMut.agent[1], now)
    /\ cacheMut' = NoCall
    /\ UNCHANGED <<agents, now, scalerVars, healerVars, monitorVars, cacheGet,
                   registerResult, routerVars, healAllVars, heartbeatVars, otherVars>>

\* updateHeartbeat: await this.registry.updateHeartbeat(id)
CacheHeartbeatWrite ==
    /\ cacheMut.pc = "idle"
    /\ \E id \in DOMAIN agents :
        /\ agents' = updateHeartbeat(agents, id, now)
        /\ cacheMut' = Call("invalidate", id, <<>>)
    /\ UNCHANGED <<now, scalerVars, healerVars, monitorVars, kv, cacheGet,
                   registerResult, routerVars, healAllVars, heartbeatVars, otherVars>>

\* await this.invalidateCache(id)
CacheInvalidate ==
    /\ cacheMut.pc = "invalidate"
    /\ kv' = kvDelete(kv, cacheMut.id)
    /\ cacheMut' = NoCall
    /\ UNCHANGED <<agents, now, scalerVars, healerVars, monitorVars, cacheGet,
                   registerResult, routerVars, healAllVars, heartbeatVars, otherVars>>

----------------------------------------------------------------------------
(* JobQueueManager.  The queue and the worker are the broker's; a queue is the list
   of jobs it holds, in the order they were added, and a worker takes any of them. *)

\* priorities a caller may put into JobData: both ends of the schema's range and
\* the values next to them
Priorities == {MinPriority - 1, MinPriority, MaxPriority, MaxPriority + 1}

JobZones == {"railway", "pi"}

JobData(priority) == [type |-> "task-execution", priority |-> priority]

\* addJob: queue.add(data.type, data, { priority: data.priority })
addJob(qs, zone, data) == [qs EXCEPT ![zone] = Append(@, data)]

AddJob ==
    /\ \E zone \in JobZones, priority \in Priorities :
        /\ Len(queues[zone]) < MaxJobs
        /\ queues' = addJob(queues, zone, JobData(priority))
    /\ UNCHANGED <<agents, now, scalerVars, healerVars, monitorVars, cacheVars, lastJob,
                   healAllVars, heartbeatVars, otherVars>>

\* the job at position k taken out of a queue
takeJob(qs, zone, k) ==
    [qs EXCEPT ![zone] = SubSeq(@, 1, k - 1) \o SubSeq(@, k + 1, Len(@))]

\* the worker's 'completed' and 'failed' handlers: console.log / console.error
onJobEvent(ag, agentId, success) == ag

\* a worker runs the processor on a job: onProcess resolves with a result naming
\* the agent that executed it, or rejects; the worker then emits 'completed' or
\* 'failed'
ProcessJob ==
    /\ \E zone \in JobZones, agentId \in DOMAIN agents, success \in BOOLEAN :
        \E k \in 1..Len(queues[zone]) :
            /\ queues' = takeJob(queues, zone, k)
            /\ agents' = onJobEvent(agents, agentId, success)
            /\ lastJob' = [finished |-> TRUE, agentId |-> <<agentId>>,
                           success |-> success, before |-> <<agents[agentId]>>]
    /\ UNCHANGED <<now, scalerVars, healerVars, monitorVars, cacheVars, healAllVars, heartbeatVars, otherVars>>

----------------------------------------------------------------------------
(* HealthMonitor *)

\* an agent without a heartbeat taken for healthy
isAgentHealthy_DefaultHealthy(row, minutesThreshold, t) ==
    IF row.status # "active" THEN FALSE
    ELSE IF row.lastHeartbeat = <<>> THEN TRUE
    ELSE t * MsPerSecond - getTime(row.lastHeartbeat[1])
            < minutesThreshold * SecondsPerMinute * MsPerSecond

isAgentHealthy(row, minutesThreshold, t) ==
    IF row.status # "active" THEN FALSE
    ELSE IF row.lastHeartbeat = <<>> THEN FALSE
    ELSE t * MsPerSecond - getTime(row.lastHeartbeat[1])
            < minutesThreshold * SecondsPerMinute * MsPerSecond

\* the else branch counting only the agents that are not active
unhealthyOf_NotActive(ag, S, minutesThreshold, t) ==
    {id \in S : ag[id].status # "active"}

\* getHealthMetrics' loop: the agents of S that take the else branch
unhealthyOf(ag, S, minutesThreshold, t) ==
    {id \in S : ~isAgentHealthy(ag[id], minutesThreshold, t)}

\* agents.length > 0 ? (healthyCount / agents.length) * 100 : 0, its whole part
healthPercentage(healthyCount, length) ==
    IF length > 0 THEN (healthyCount * 100) \div length ELSE 0

\* getHealthMetrics: the overall counts and byZone
getHealthMetrics(ag, minutesThreshold, t) ==
    LET healthy == {id \in DOMAIN ag : isAgentHealthy(ag[id], minutesThreshold, t)}
        stale == getStaleAgents(ag, minutesThreshold, t)
        inZone(z) == {id \in DOMAIN ag : ag[id].zone = z}
    IN  [totalAgents |-> Cardinality(DOMAIN ag),
         healthyAgents |-> Cardinality(healthy),
         unhealthyAgents |-> Cardinality(unhealthyOf(ag, DOMAIN ag, minutesThreshold, t)),
         staleAgents |-> Cardinality(stale),
         healthPercentage |-> healthPercentage(Cardinality(healthy), Cardinality(DOMAIN ag)),
         byZone |-> [z \in Zones |->
            [total |-> Cardinality(inZone(z)),
             healthy |-> Cardinality(inZone(z) \cap healthy),
             unhealthy |-> Cardinality(unhealthyOf(ag, inZone(z), minutesThreshold, t)),
             stale |-> Cardinality(inZone(z) \cap stale)]]]

\* the loop of runHealthCheckCycle left out
markedByLoop_Nothing(ag, id) == ag

\* the loop of runHealthCheckCycle zeroing the health score of what it marks
markedByLoop_ZeroesHealth(ag, id) ==
    [ag EXCEPT ![id].status = "error", ![id].healthScore = 0]

\* markUnhealthy
markedByLoop(ag, id) == updateAgentStatus(ag, id, "error")

NoMetrics ==
    [totalAgents |-> 0, healthyAgents |-> 0, unhealthyAgents |-> 0, staleAgents |-> 0,
     healthPercentage |-> 0,
     byZone |-> [z \in Zones |-> [total |-> 0, healthy |-> 0, unhealthy |-> 0, stale |-> 0]]]

NoMonitorResult ==
    [returned |-> FALSE, metrics |-> NoMetrics, staleAgents |-> {}, actionsTaken |-> 0]

\* runHealthCheckCycle: const metrics = await this.getHealthMetrics()
MonitorBegin ==
    /\ monPc' = "metrics"
    /\ monMetrics' = getHealthMetrics(agents, monThreshold, now)
    /\ monStale' = {}
    /\ monTodo' = {}
    /\ monActions' = 0
    /\ monResult' = NoMonitorResult
    /\ expectedStale' = {}
    /\ errWritten' = {}
    /\ UNCHANGED <<agents, now, scalerVars, healerVars, cacheVars, routerVars,
                   healAllVars, heartbeatVars, otherVars, monThreshold>>

\* runHealthCheckCycle() called while no cycle of the monitor is under way
MonitorMetrics ==
    /\ monPc \in {"idle", "done"}
    /\ MonitorBegin

\* const staleAgents = await this.getStaleAgents()
MonitorFetchStale ==
    /\ monPc = "metrics"
    /\ monPc' = "marking"
    /\ monStale' = getStaleAgents(agents, monThreshold, now)
    /\ monTodo' = monStale'
    /\ expectedStale' =
        {<<id, agents[id].lastHeartbeat>> : id \in
            {i \in DOMAIN agents :
                /\ agents[i].status = "active"
                /\ \/ agents[i].lastHeartbeat = <<>>
                   \/ /\ agents[i].lastHeartbeat # <<>>
                      /\ now - getTime(agents[i].lastHeartbeat[1]) \div MsPerSecond
                            > monThreshold * SecondsPerMinute}}
    /\ UNCHANGED <<agents, now, scalerVars, healerVars, cacheVars, routerVars,
                   healAllVars, heartbeatVars, otherVars, monThreshold, monMetrics,
                   monActions, monResult, errWritten>>

\* one turn of: for (const agent of staleAgents) { await this.markUnhealthy(agent.id) ... }
MonitorMark ==
    /\ monPc = "marking"
    /\ \E id \in monTodo :
        /\ agents' = markedByLoop(agents, id)
        /\ monTodo' = monTodo \ {id}
        /\ errWritten' = IF agents'[id].status = "error" THEN errWritten \cup {id}
                         ELSE errWritten
    /\ monActions' = monActions + 1
    /\ UNCHANGED <<now, scalerVars, healerVars, cacheVars, routerVars,
                   healAllVars, heartbeatVars, otherVars, monThreshold, monPc, monMetrics, monStale,
                   monResult, expectedStale>>

\* return { metrics, staleAgents, actionsTaken }
MonitorReturn ==
    /\ monPc = "marking"
    /\ monTodo = {}
    /\ monPc' = "done"
    /\ monResult' = [returned |-> TRUE, metrics |-> monMetrics, staleAgents |-> monStale,
                     actionsTaken |-> monActions]
    /\ monMetrics' = NoMetrics
    /\ monStale' = {}
    /\ monActions' = 0
    /\ UNCHANGED <<agents, now, scalerVars, healerVars, cacheVars, routerVars,
                   healAllVars, heartbeatVars, otherVars, monThreshold, monTodo,
                   expectedStale, errWritten>>

TickMonitor ==
    /\ now < MaxMonitorTicks * TickSeconds
    /\ now' = now + TickSeconds
    /\ UNCHANGED <<agents, scalerVars, healerVars, monitorVars,
                   cacheVars, routerVars, healAllVars, heartbeatVars, otherVars>>

MonitorIdle ==
    /\ monPc = "idle"
    /\ monMetrics = NoMetrics
    /\ monStale = {}
    /\ monTodo = {}
    /\ monActions = 0
    /\ monResult = NoMonitorResult
    /\ expectedStale = {}
    /\ errWritten = {}

----------------------------------------------------------------------------
(* SelfHealer *)

\* this.restartCounts.get(agentId) || 0
getRestartCount(rc, id) == IF id \in DOMAIN rc THEN rc[id] ELSE 0

incrementRestartCount(rc, id) ==
    [i \in DOMAIN rc \cup {id} |-> IF i = id THEN getRestartCount(rc, id) + 1 ELSE rc[i]]

\* the delete left out
resetRestartCount_Kept(rc, id) == rc

\* this.restartCounts.delete(agentId)
resetRestartCount(rc, id) == [i \in DOMAIN rc \ {id} |-> rc[i]]

\* the ceiling tested with > in place of >=
limitReached_OffByOne(restartCount) == restartCount > MAX_RESTART_ATTEMPTS

\* healAgent's test for the replace branch
limitReached(restartCount) == restartCount >= MAX_RESTART_ATTEMPTS

\* restartAgent runs four awaited calls in a try block; any of them may reject:
\* the write of paused, the zone's restart procedure, the write of active, the
\* heartbeat write.  "none": all four resolve.
RestartFailures == {"none", "pause", "restart", "activate", "heartbeat"}

\* restartAgent: the table it leaves when the call named by failAt rejects
restartAgent(ag, id, failAt, t) ==
    IF failAt = "pause" THEN ag
    ELSE IF failAt \in {"restart", "activate"} THEN updateAgentStatus(ag, id, "paused")
    ELSE IF failAt = "heartbeat"
    THEN updateAgentStatus(updateAgentStatus(ag, id, "paused"), id, "active")
    ELSE updateHeartbeat(
            updateAgentStatus(updateAgentStatus(ag, id, "paused"), id, "active"), id, t)

\* restartAgent's return value
restartSucceeded(failAt) == failAt = "none"

\* spawnReplacementAgent: the id and the row it hands to registerAgent
replacementId(capability, zone, random) == <<capability, zone, random>>

replacementRow(capability, zone, random, t) ==
    Row(<<t * MsPerSecond, random>>, capability, zone, "active", 100, <<isoNow(t)>>,
        0, 0, TRUE)

HealingAction(id, action, success) ==
    [agentId |-> id, action |-> action, success |-> success]

HealOutcome(id, branch, success, thrown, ran, fails, count, repl) ==
    [called |-> TRUE, agentId |-> id, branch |-> branch, success |-> success,
     thrown |-> thrown, restartRan |-> ran, priorFails |-> fails,
     priorCount |-> count, replacementId |-> repl]

\* healAgent, replace branch, when the write of status error rejects: the
\* rejection leaves healAgent before anything else is done
HealReplaceRejected(x) ==
    /\ limitReached(getRestartCount(restartCounts, x))
    /\ healResult' = HealOutcome(x, "replace", FALSE, TRUE, FALSE, consecFails[x],
                                 getRestartCount(restartCounts, x), <<>>)
    /\ UNCHANGED <<agents, restartCounts, healingHistory, consecFails, replaced,
                   restartedAfter>>

\* healAgent, replace branch; dbFails: the INSERT rejects for a reason of the store's
HealReplace(x, random, dbFails) ==
    LET marked == updateAgentStatus(agents, x, "error")
        y == replacementId(agents[x].capability, agents[x].zone, random)
        row == replacementRow(agents[x].capability, agents[x].zone, random, now)
        registered == ~dbFails /\ insertAllowed(marked, y, row)
    IN  /\ limitReached(getRestartCount(restartCounts, x))
        /\ agents' = IF registered THEN registerAgent(marked, y, row) ELSE marked
        /\ healingHistory' = Append(healingHistory, HealingAction(x, "replace", registered))
        /\ restartCounts' = resetRestartCount(restartCounts, x)
        /\ healResult' = HealOutcome(x, "replace", registered, FALSE, FALSE, consecFails[x],
                                     getRestartCount(restartCounts, x),
                                     IF registered THEN <<y>> ELSE <<>>)
        /\ consecFails' = [consecFails EXCEPT ![x] = 0]
        /\ replaced' = IF registered THEN replaced \cup {x} ELSE replaced
        /\ UNCHANGED restartedAfter

\* healAgent, restart branch
HealRestart(x, failAt) ==
    LET success == restartSucceeded(failAt)
        counted == incrementRestartCount(restartCounts, x)
    IN  /\ ~limitReached(getRestartCount(restartCounts, x))
        /\ agents' = restartAgent(agents, x, failAt, now)
        /\ healingHistory' = Append(healingHistory, HealingAction(x, "restart", success))
        /\ restartCounts' = IF success THEN resetRestartCount(counted, x) ELSE counted
        /\ healResult' = HealOutcome(x, "restart", success, FALSE, TRUE, consecFails[x],
                                     getRestartCount(restartCounts, x), <<>>)
        /\ consecFails' = [consecFails EXCEPT ![x] = IF success THEN 0 ELSE @ + 1]
        /\ restartedAfter' = IF x \in replaced THEN restartedAfter \cup {x}
                             ELSE restartedAfter
        /\ UNCHANGED replaced

\* healAgent(agent), for an agent of the registry
HealAgent ==
    /\ Len(healingHistory) < MaxHistory
    /\ \E x \in DOMAIN agents :
        \/ HealReplaceRejected(x)
        \/ \E random \in 0..MaxRandom, dbFails \in BOOLEAN : HealReplace(x, random, dbFails)
        \/ \E failAt \in RestartFailures : HealRestart(x, failAt)
    /\ UNCHANGED <<now, scalerVars, monitorVars,
                   cacheVars, routerVars, healAllVars, heartbeatVars, otherVars>>

\* healAgent(agent) up to its first await, which runs without interruption: the
\* count is read and the branch chosen, and in the restart branch the count is
\* incremented.  Other healAgent calls, of the same agent too, may be under way.
HealBegin ==
    /\ Len(healingHistory) + Cardinality(healInFlight) < MaxHeals
    /\ Cardinality(healInFlight) < MaxOverlap
    /\ \E x \in DOMAIN agents, k \in 1..MaxOverlap :
        LET restartCount == getRestartCount(restartCounts, x)
            replace == limitReached(restartCount)
        IN  /\ \A c \in healInFlight : c.call # k
            /\ healInFlight' = healInFlight \cup
                    {[call |-> k, agentId |-> x, restartCount |-> restartCount,
                      branch |-> IF replace THEN "replace" ELSE "restart"]}
            /\ restartCounts' = IF replace THEN restartCounts
                                ELSE incrementRestartCount(restartCounts, x)
    /\ UNCHANGED <<agents, now, scalerVars, healingHistory, healResult, consecFails,
                   replaced, restartedAfter, monitorVars, cacheVars, routerVars,
                   healAllVars, heartbeatVars, scaleInFlight, statsVars,
                   stateManagerVars, httpVars>>

\* a replace-branch call whose write of error rejects: the call throws
HealEndRejected(c) ==
    /\ c.branch = "replace"
    /\ healResult' = HealOutcome(c.agentId, "replace", FALSE, TRUE, FALSE,
                                 consecFails[c.agentId], c.restartCount, <<>>)
    /\ UNCHANGED <<agents, restartCounts, healingHistory, consecFails, replaced,
                   restartedAfter>>

\* the rest of a replace-branch call: the write of error, spawnReplacementAgent,
\* the push to the history and the reset of the count
HealEndReplace(c, random, dbFails) ==
    LET x == c.agentId
        marked == updateAgentStatus(agents, x, "error")
        y == replacementId(agents[x].capability, agents[x].zone, random)
        row == replacementRow(agents[x].capability, agents[x].zone, random, now)
        registered == ~dbFails /\ insertAllowed(marked, y, row)
    IN  /\ c.branch = "replace"
        /\ agents' = IF registered THEN registerAgent(marked, y, row) ELSE marked
        /\ healingHistory' = Append(healingHistory, HealingAction(x, "replace", registered))
        /\ restartCounts' = resetRestartCount(restartCounts, x)
        /\ healResult' = HealOutcome(x, "replace", registered, FALSE, FALSE, consecFails[x],
                                     c.restartCount, IF registered THEN <<y>> ELSE <<>>)
        /\ consecFails' = [consecFails EXCEPT ![x] = 0]
        /\ replaced' = IF registered THEN replaced \cup {x} ELSE replaced
        /\ UNCHANGED restartedAfter

\* the rest of a restart-branch call: restartAgent, the push to the history and,
\* on success, the reset of the count
HealEndRestart(c, failAt) ==
    LET x == c.agentId
        success == restartSucceeded(failAt)
    IN  /\ c.branch = "restart"
        /\ agents' = restartAgent(agents, x, failAt, now)
        /\ healingHistory' = Append(healingHistory, HealingAction(x, "restart", success))
        /\ restartCounts' = IF success THEN resetRestartCount(restartCounts, x)
                            ELSE restartCounts
        /\ healResult' = HealOutcome(x, "restart", success, FALSE, TRUE, consecFails[x],
                                     c.restartCount, <<>>)
        /\ consecFails' = [consecFails EXCEPT ![x] = IF success THEN 0 ELSE @ + 1]
        /\ restartedAfter' = IF x \in replaced THEN restartedAfter \cup {x}
                             ELSE restartedAfter
        /\ UNCHANGED replaced

\* a healAgent call under way runs to its return
HealEnd ==
    /\ \E c \in healInFlight :
        /\ \/ HealEndRejected(c)
           \/ \E random \in 0..MaxRandom, dbFails \in BOOLEAN :
                    HealEndReplace(c, random, dbFails)
           \/ \E failAt \in RestartFailures : HealEndRestart(c, failAt)
        /\ healInFlight' = healInFlight \ {c}
    /\ UNCHANGED <<now, scalerVars, monitorVars, cacheVars, routerVars,
                   healAllVars, heartbeatVars, scaleInFlight, statsVars,
                   stateManagerVars, httpVars>>

\* healAllFailed(failedAgents): Promise.all(failedAgents.map((agent) =>
\* this.healAgent(agent))) starts one healAgent call per agent of the batch
HealAllStart ==
    /\ healAllPending = {}
    /\ healAllResult.batch = {} \/ healAllResult.returned
    /\ \E batch \in SUBSET DOMAIN agents :
        /\ batch # {}
        /\ Len(healingHistory) + Cardinality(batch) <= MaxHistory
        /\ healAllPending' = batch
        /\ healAllResult' = [returned |-> FALSE, rejected |-> FALSE, batch |-> batch,
                             actions |-> <<>>]
    /\ healAllActions' = <<>>
    /\ healAllRejected' = {}
    /\ healHung' = {}
    /\ UNCHANGED <<agents, now, scalerVars, healerVars, monitorVars, cacheVars,
                   routerVars, heartbeatVars, otherVars>>

\* one of the batch's healAgent calls settles: it resolves with the HealingAction it
\* pushed to the history, or rejects
HealAllSettle ==
    /\ \E x \in healAllPending \ healHung :
        /\ \/ /\ HealReplaceRejected(x)
              /\ healAllRejected' = healAllRejected \cup {x}
              /\ UNCHANGED healAllActions
           \/ /\ \/ \E random \in 0..MaxRandom, dbFails \in BOOLEAN :
                        HealReplace(x, random, dbFails)
                 \/ \E failAt \in RestartFailures : HealRestart(x, failAt)
              /\ healAllActions' =
                    [i \in DOMAIN healAllActions \cup {x} |->
                        IF i = x THEN healingHistory'[Len(healingHistory')]
                        ELSE healAllActions[i]]
              /\ UNCHANGED healAllRejected
        /\ healAllPending' = healAllPending \ {x}
    /\ UNCHANGED <<now, scalerVars, monitorVars, cacheVars, routerVars, healAllResult,
                   healHung, heartbeatVars, otherVars>>

\* healAgent when the registry never answers a call it awaits: in the restart
\* branch the write of paused, after the count was incremented; in the replace
\* branch the INSERT of the replacement, after error was written.  No timer bounds
\* either await, so the call stays where it is.
HealHangs(x) ==
    /\ IF limitReached(getRestartCount(restartCounts, x))
       THEN /\ agents' = updateAgentStatus(agents, x, "error")
            /\ UNCHANGED restartCounts
       ELSE /\ agents' = agents
            /\ restartCounts' = incrementRestartCount(restartCounts, x)
    /\ UNCHANGED <<healingHistory, healResult, consecFails, replaced, restartedAfter>>

\* one of the batch's healAgent calls reaches an await that is never answered
HealAllHang ==
    /\ \E x \in healAllPending \ healHung :
        /\ HealHangs(x)
        /\ healHung' = healHung \cup {x}
    /\ UNCHANGED <<now, scalerVars, monitorVars, cacheVars, routerVars, heartbeatVars, otherVars,
                   healAllPending, healAllActions, healAllRejected, healAllResult>>

\* Promise.all settles: it resolves with the actions once every call has resolved,
\* and rejects as soon as one call has rejected, whatever the others do later
HealAllReturn ==
    /\ healAllResult.batch # {}
    /\ ~healAllResult.returned
    /\ healAllPending = {} \/ healAllRejected # {}
    /\ healAllResult' = [returned |-> TRUE, rejected |-> healAllRejected # {},
                         batch |-> healAllResult.batch,
                         actions |-> IF healAllRejected # {} THEN <<>>
                                     ELSE healAllActions]
    /\ UNCHANGED <<agents, now, scalerVars, healerVars, monitorVars, cacheVars,
                   routerVars, healAllPending, healAllActions, healAllRejected,
                   healHung, heartbeatVars, otherVars>>

\* runHealingCycle(staleAgents) up to the await of healAllFailed: one healAgent call
\* per agent of the batch; Promise.all of an empty array resolves at once
runHealingCycle(batch) ==
    /\ healAllPending' = batch
    /\ healAllActions' = <<>>
    /\ healAllRejected' = {}
    /\ healHung' = {}
    /\ healAllResult' = [returned |-> batch = {}, rejected |-> FALSE, batch |-> batch,
                         actions |-> <<>>]

\* the periodic driver starts a cycle: the monitor first.  A cycle starts once the
\* healing of the cycle before it has returned and its calls have settled.
DriverMonitor ==
    /\ \/ monPc = "idle"
       \/ monPc = "healing" /\ healAllResult.returned /\ healAllPending = {}
    /\ MonitorBegin

\* the periodic driver hands the monitor's stale agents to the healer
DriverHeal ==
    /\ monPc = "done"
    /\ monPc' = "healing"
    /\ runHealingCycle(monResult.staleAgents)
    /\ UNCHANGED <<agents, now, scalerVars, healerVars, cacheVars, routerVars,
                   heartbeatVars, otherVars, monThreshold, monMetrics, monStale, monTodo,
                   monActions, monResult, expectedStale, errWritten>>

NoHeal ==
    [called |-> FALSE, agentId |-> <<>>, branch |-> "none", success |-> FALSE,
     thrown |-> FALSE, restartRan |-> FALSE, priorFails |-> 0, priorCount |-> 0,
     replacementId |-> <<>>]

HealerIdle ==
    /\ restartCounts = <<>>
    /\ healingHistory = <<>>
    /\ healResult = NoHeal
    /\ consecFails = [id \in Ids |-> 0]
    /\ replaced = {}
    /\ restartedAfter = {}

----------------------------------------------------------------------------
(* SelfHealer.getStats over the healing history.  A HealingAction carries its
   executionTime, the milliseconds the heal call took; `pushedAt` is not a field
   of the program's record: it keeps, for the properties, the second at which
   healAgent pushed the entry. *)

\* periods getStats is asked for, in milliseconds
StatsWindows == {MsPerSecond, 2 * MsPerSecond}

\* healAgent: this.healingHistory.push(action), executionTime = Date.now() - startTime
PushHealingAction ==
    /\ Len(statsHistory) < MaxStatsHistory
    /\ \E action \in {"restart", "replace"}, success \in BOOLEAN, d \in 0..MaxDuration :
        /\ d <= now
        /\ statsHistory' = Append(statsHistory,
                [action |-> action, success |-> success,
                 executionTime |-> d * MsPerSecond, pushedAt |-> now])
    /\ UNCHANGED <<agents, now, scalerVars, healerVars, monitorVars, cacheVars, routerVars,
                   healAllVars, heartbeatVars, overlapVars, statsResult,
                   stateManagerVars, httpVars>>

\* the entries getStats keeps: cutoff = Date.now() - timePeriodMs, and
\* filter((a) => Date.now() - a.executionTime < cutoff)
recentActions(history, timePeriodMs, t) ==
    LET cutoff == t * MsPerSecond - timePeriodMs
    IN  {i \in DOMAIN history : t * MsPerSecond - history[i].executionTime < cutoff}

\* getStats(timePeriodMs), the counts
getStats(history, timePeriodMs, t) ==
    LET recent == recentActions(history, timePeriodMs, t)
        restarted == Cardinality({i \in recent :
                        history[i].action = "restart" /\ history[i].success})
        replacedCount == Cardinality({i \in recent :
                        history[i].action = "replace" /\ history[i].success})
        failed == Cardinality({i \in recent : ~history[i].success})
    IN  [totalHealed |-> restarted + replacedCount, restarted |-> restarted,
         replaced |-> replacedCount, failed |-> failed]

GetStats ==
    /\ \E timePeriodMs \in StatsWindows :
        statsResult' = <<[timePeriodMs |-> timePeriodMs, at |-> now,
                          stats |-> getStats(statsHistory, timePeriodMs, now)]>>
    /\ UNCHANGED <<agents, now, scalerVars, healerVars, monitorVars, cacheVars, routerVars,
                   healAllVars, heartbeatVars, overlapVars, statsHistory,
                   stateManagerVars, httpVars>>

----------------------------------------------------------------------------
(* StateManager: a Map of StateItems and its upload to Cloudflare KV.  An item is
   modelled by its value, version and syncStatus; a StateItem object is never
   changed by set(), which puts a new object into the Map. *)

StateKeys == {"queue", "fleet"}

StateItem(value, version, syncStatus) ==
    [value |-> value, version |-> version, syncStatus |-> syncStatus]

\* set(key, value)
Set ==
    /\ \E key \in StateKeys, value \in 0..MaxValue :
        LET version == IF key \in DOMAIN states THEN states[key].version + 1 ELSE 1
        IN  /\ version <= MaxVersion
            /\ states' = [k \in DOMAIN states \cup {key} |->
                            IF k = key THEN StateItem(value, version, "pending")
                            ELSE states[k]]
    /\ UNCHANGED <<agents, now, scalerVars, healerVars, monitorVars, cacheVars, routerVars,
                   healAllVars, heartbeatVars, overlapVars, statsVars, syncing,
                   cloudflareKv, httpVars>>

\* delete(key) of a key that is set
Delete ==
    /\ \E key \in DOMAIN states :
        states' = [k \in DOMAIN states \ {key} |-> states[k]]
    /\ UNCHANGED <<agents, now, scalerVars, healerVars, monitorVars, cacheVars, routerVars,
                   healAllVars, heartbeatVars, overlapVars, statsVars, syncing,
                   cloudflareKv, httpVars>>

\* markSynced(key): the item the Map holds under key now
markSynced(st, key) ==
    IF key \in DOMAIN st THEN [st EXCEPT ![key].syncStatus = "synced"] ELSE st

\* getPendingSync(): the items of the Map that are pending, as the objects they are
getPendingSync(st) ==
    {[key |-> k, value |-> st[k].value, version |-> st[k].version] :
        k \in {j \in DOMAIN st : st[j].syncStatus = "pending"}}

\* syncToCloudflareKV: const pending = this.getPendingSync()
SyncStart ==
    /\ syncing = <<>>
    /\ syncing' = <<[pending |-> getPendingSync(states), awaiting |-> <<>>,
                     success |-> {}, failed |-> {}]>>
    /\ UNCHANGED <<agents, now, scalerVars, healerVars, monitorVars, cacheVars, routerVars,
                   healAllVars, heartbeatVars, overlapVars, statsVars, states,
                   cloudflareKv, httpVars>>

\* a turn of the loop up to its await: the PUT of the item's value and version
SyncPut ==
    /\ syncing # <<>>
    /\ syncing[1].awaiting = <<>>
    /\ \E item \in syncing[1].pending :
        syncing' = <<[syncing[1] EXCEPT !.pending = @ \ {item}, !.awaiting = <<item>>]>>
    /\ UNCHANGED <<agents, now, scalerVars, healerVars, monitorVars, cacheVars, routerVars,
                   healAllVars, heartbeatVars, overlapVars, statsVars, states,
                   cloudflareKv, httpVars>>

\* the PUT is answered: response.ok, the value is stored and markSynced runs; or
\* not ok / an exception, and the key is pushed to failed
SyncResponse ==
    /\ syncing # <<>>
    /\ syncing[1].awaiting # <<>>
    /\ LET item == syncing[1].awaiting[1]
       IN  \E ok \in BOOLEAN :
            IF ok
            THEN /\ cloudflareKv' = [k \in DOMAIN cloudflareKv \cup {item.key} |->
                        IF k = item.key
                        THEN [value |-> item.value, version |-> item.version]
                        ELSE cloudflareKv[k]]
                 /\ states' = markSynced(states, item.key)
                 /\ syncing' = <<[syncing[1] EXCEPT !.awaiting = <<>>,
                                                    !.success = @ \cup {item.key}]>>
            ELSE /\ syncing' = <<[syncing[1] EXCEPT !.awaiting = <<>>,
                                                    !.failed = @ \cup {item.key}]>>
                 /\ UNCHANGED <<states, cloudflareKv>>
    /\ UNCHANGED <<agents, now, scalerVars, healerVars, monitorVars, cacheVars, routerVars,
                   healAllVars, heartbeatVars, overlapVars, statsVars, httpVars>>

\* return { success, failed }
SyncReturn ==
    /\ syncing # <<>>
    /\ syncing[1].pending = {}
    /\ syncing[1].awaiting = <<>>
    /\ syncing' = <<>>
    /\ UNCHANGED <<agents, now, scalerVars, healerVars, monitorVars, cacheVars, routerVars,
                   healAllVars, heartbeatVars, overlapVars, statsVars, states,
                   cloudflareKv, httpVars>>

----------------------------------------------------------------------------
(* The Worker of the health monitor: the scheduled handler that stores a cycle's
   result in AGENTS_KV, and the fetch handler that answers from it.  A handler
   runs alone here, from its first line to its return or its throw. *)

\* new HealthMonitor(registry, 5)
HandlerThresholdMinutes == 5

\* AGENTS_KV with neither health:latest nor health:stale
EmptyKv == [latest |-> <<>>, stale |-> <<>>]

\* the registry after the loop of runHealthCheckCycle has marked the agents of S
markedAll(ag, S) ==
    [id \in DOMAIN ag |-> IF id \in S THEN markedByLoop(ag, id)[id] ELSE ag[id]]

\* runHealthCheckCycle() of a handler's monitor, run to its return
runHealthCheckCycle(ag, t) ==
    LET stale == getStaleAgents(ag, HandlerThresholdMinutes, t)
    IN  [metrics |-> getHealthMetrics(ag, HandlerThresholdMinutes, t),
         staleAgents |-> stale,
         actionsTaken |-> Cardinality(stale)]

\* a cycle that throws: a read of the registry rejects, or a markUnhealthy rejects
\* after the loop has marked the agents of some S
CycleThrows ==
    \E S \in SUBSET getStaleAgents(agents, HandlerThresholdMinutes, now) :
        agents' = markedAll(agents, S)

\* a cycle that returns
CycleReturns ==
    agents' = markedAll(agents, getStaleAgents(agents, HandlerThresholdMinutes, now))

\* scheduled(): the cycle, then the put of health:latest, then the put of
\* health:stale; a rejected await ends the handler there
Scheduled ==
    /\ \E failAt \in {"none", "cycle", "putLatest", "putStale"} :
        LET result == runHealthCheckCycle(agents, now)
        IN  IF failAt = "cycle"
            THEN /\ CycleThrows
                 /\ UNCHANGED healthKv
            ELSE /\ CycleReturns
                 /\ healthKv' =
                        [latest |-> IF failAt = "putLatest" THEN healthKv.latest
                                    ELSE <<result.metrics>>,
                         stale |-> IF failAt = "none" THEN <<result.staleAgents>>
                                   ELSE healthKv.stale]
    /\ UNCHANGED <<now, scalerVars, healerVars, monitorVars, cacheVars, routerVars,
                   healAllVars, heartbeatVars, overlapVars, statsVars, stateManagerVars,
                   httpResponse>>

\* expirationTtl: 300 on each key
KvExpire ==
    /\ \E key \in {"latest", "stale"} :
        /\ healthKv[key] # <<>>
        /\ healthKv' = [healthKv EXCEPT ![key] = <<>>]
    /\ UNCHANGED <<agents, now, scalerVars, healerVars, monitorVars, cacheVars, routerVars,
                   healAllVars, heartbeatVars, overlapVars, statsVars, stateManagerVars,
                   httpResponse>>

\* what fetch() came to: a Response (status and body) or an exception thrown out
\* of the handler; noData and cycleFailed record what the handler met
Answer(path, noData, cycleFailed, threw, status, body) ==
    [path |-> path, noData |-> noData, cycleFailed |-> cycleFailed, threw |-> threw,
     status |-> status, body |-> body]

\* GET /health: Response.json(metrics || { error: 'No health data available' })
GetHealth ==
    /\ httpResponse' =
        <<Answer("/health", healthKv.latest = <<>>, FALSE, FALSE, 200,
                 IF healthKv.latest # <<>> THEN <<"data", healthKv.latest[1]>>
                 ELSE <<"error", "No health data available">>)>>
    /\ UNCHANGED <<agents, now, scalerVars, healerVars, monitorVars, cacheVars, routerVars,
                   healAllVars, heartbeatVars, overlapVars, statsVars, stateManagerVars,
                   healthKv>>

\* GET /health/stale: Response.json(stale || [])
GetHealthStale ==
    /\ httpResponse' =
        <<Answer("/health/stale", healthKv.stale = <<>>, FALSE, FALSE, 200,
                 IF healthKv.stale # <<>> THEN <<"data", healthKv.stale[1]>>
                 ELSE <<"data", {}>>)>>
    /\ UNCHANGED <<agents, now, scalerVars, healerVars, monitorVars, cacheVars, routerVars,
                   healAllVars, heartbeatVars, overlapVars, statsVars, stateManagerVars,
                   healthKv>>

\* POST /health/check: const result = await monitor.runHealthCheckCycle();
\* return Response.json(result), with no catch around the await
PostHealthCheck ==
    /\ \E cycleFails \in BOOLEAN :
        IF cycleFails
        THEN /\ CycleThrows
             /\ httpResponse' = <<Answer("/health/check", FALSE, TRUE, TRUE, 0, <<>>)>>
        ELSE /\ CycleReturns
             /\ httpResponse' =
                    <<Answer("/health/check", FALSE, FALSE, FALSE, 200,
                             <<"data", runHealthCheckCycle(agents, now)>>)>>
    /\ UNCHANGED <<now, scalerVars, healerVars, monitorVars, cacheVars, routerVars,
                   healAllVars, heartbeatVars, overlapVars, statsVars, stateManagerVars,
                   healthKv>>

----------------------------------------------------------------------------
(* Components that have not been called yet *)

NoRegisterResult == [called |-> FALSE, id |-> <<>>, ok |-> FALSE, duplicate |-> FALSE]

CacheIdle ==
    /\ kv = <<>>
    /\ cacheGet = NoCall
    /\ cacheMut = NoCall
    /\ registerResult = NoRegisterResult

NoJob == [finished |-> FALSE, agentId |-> <<>>, success |-> FALSE, before |-> <<>>]

RouterIdle ==
    /\ queues = [z \in Zones |-> <<>>]
    /\ lastJob = NoJob

NoHealAll == [returned |-> FALSE, rejected |-> FALSE, batch |-> {}, actions |-> <<>>]

HealAllIdle ==
    /\ healAllPending = {}
    /\ healAllActions = <<>>
    /\ healAllRejected = {}
    /\ healAllResult = NoHealAll
    /\ healHung = {}

HeartbeatIdle ==
    /\ hbInFlight = {}
    /\ failedAt = <<>>

OverlapIdle ==
    /\ scaleInFlight = {}
    /\ healInFlight = {}

StatsIdle ==
    /\ statsHistory = <<>>
    /\ statsResult = <<>>

StateManagerIdle ==
    /\ states = <<>>
    /\ syncing = <<>>
    /\ cloudflareKv = <<>>

HttpIdle ==
    /\ healthKv = EmptyKv
    /\ httpResponse = <<>>

OthersIdle ==
    /\ CacheIdle
    /\ RouterIdle
    /\ HealAllIdle
    /\ HeartbeatIdle
    /\ OverlapIdle
    /\ StatsIdle
    /\ StateManagerIdle
    /\ HttpIdle

----------------------------------------------------------------------------
(* The scaler over a registry nobody else writes *)

ActiveCount(ag) == Cardinality({id \in DOMAIN ag : ag[id].status = "active"})

\* fleets the scaler may find: one zone only, two zones, and one with an agent paused
ScalerFleets ==
    LET a(cap, z, r, st, tc) ==
            <<<<cap, z, r>>, Row(<<0, tc>>, cap, z, st, 100, <<isoNow(0)>>, tc, 0, FALSE)>>
        Table(S) == [id \in {p[1] : p \in S} |-> (CHOOSE p \in S : p[1] = id)[2]]
    IN  { Table({a("infer", "railway", 0, "active", 0), a("infer", "railway", 1, "active", 1),
                 a("exec", "railway", 0, "active", 2)}),
          Table({a("infer", "railway", 0, "active", 3), a("infer", "railway", 1, "active", 1),
                 a("infer", "pi", 0, "active", 2), a("infer", "pi", 1, "active", 0)}),
          Table({a("infer", "cloudflare", 0, "active", 0),
                 a("infer", "cloudflare", 1, "paused", 1),
                 a("infer", "pi", 0, "active", 2)}) }

NoResult ==
    [metrics |-> [queueDepth |-> 0, activeAgents |-> 0],
     decision |-> Decision("none", 0, "railway", "none yet"),
     executed |-> FALSE, thrown |-> FALSE]

InitScaler ==
    /\ agents \in ScalerFleets
    /\ cfg \in ScalingConfigs
    /\ ActiveCount(agents) >= cfg.minAgents
    /\ ActiveCount(agents) <= cfg.maxAgents
    /\ now = 0
    /\ lastScalingAction = <<>>
    /\ lastExecuted = <<>>
    /\ scalerResult = NoResult
    /\ HealerIdle
    /\ monThreshold = MaxThreshold
    /\ MonitorIdle
    /\ OthersIdle

NextScaler == RunScalingCycle \/ MakeDecisionCall \/ Tick

SpecScaler == InitScaler /\ [][NextScaler]_vars

\* C1: under scaling cycles alone, whatever the queue depths, the number of agents
\* with status active stays within [minAgents, maxAgents] once it starts there.
C1_ActiveAgentsWithinBounds ==
    /\ ActiveCount(agents) >= cfg.minAgents
    /\ ActiveCount(agents) <= cfg.maxAgents

InCooldownWindow ==
    /\ lastExecuted # <<>>
    /\ now < lastExecuted[1] + cfg.cooldownPeriod

\* C2: once a non-none decision has been executed at time t, every decide call
\* made before t + cooldownPeriod returns action none, whatever its metrics.
C2_NoDecisionWithinCooldown ==
    [][(InCooldownWindow /\ (MakeDecisionCall \/ RunScalingCycle))
            => scalerResult'.decision.action = "none"]_vars

\* C2 witness: inside the window a decide call was handed metrics that ask for a
\* scale-up and answered none.
C2_Witness ==
    /\ InCooldownWindow
    /\ scalerResult.decision.reason = "In cooldown period"
    /\ scalerResult.metrics.queueDepth > cfg.scaleUpQueueDepth
    /\ scalerResult.metrics.activeAgents < cfg.maxAgents

\* the number of registered agents of a zone
ZoneCount(z) == Cardinality({id \in DOMAIN agents : agents[id].zone = z})

DecideCall == MakeDecisionCall \/ RunScalingCycle

ScaleUpCondition(m) ==
    m.queueDepth > cfg.scaleUpQueueDepth /\ m.activeAgents < cfg.maxAgents

ScaleDownCondition(m) ==
    m.queueDepth < cfg.scaleDownQueueDepth /\ m.activeAgents > cfg.minAgents

\* C11: outside cooldown, a decide call whose metrics have queueDepth above the
\* scale-up threshold and activeAgents below maxAgents returns scale-up, with
\* targetCount = activeAgents + min(scaleUpIncrement, queueDepth / 10 in whole
\* agents, maxAgents - activeAgents), for a zone no other zone has fewer agents than.
C11_ScaleUpDecision ==
    [][(~InCooldownWindow /\ ScaleUpCondition(scalerResult'.metrics) /\ DecideCall) =>
        LET m == scalerResult'.metrics
            d == scalerResult'.decision
            byQueue == m.queueDepth \div 10
            headroom == cfg.maxAgents - m.activeAgents
            inc == CHOOSE i \in {cfg.scaleUpIncrement, byQueue, headroom} :
                      i <= cfg.scaleUpIncrement /\ i <= byQueue /\ i <= headroom
        IN  /\ d.action = "scale-up"
            /\ d.targetCount = m.activeAgents + inc
            /\ \A z \in Zones : ZoneCount(d.zone) <= ZoneCount(z)]_vars

\* C11 witness: a scale-up was decided whose increment is set by the queue depth
\* (below the configured increment and the headroom), for the emptier of zones
\* that differ in their agent counts.
C11_Witness ==
    /\ scalerResult.decision.action = "scale-up"
    /\ scalerResult.decision.targetCount = scalerResult.metrics.activeAgents + 1
    /\ cfg.scaleUpIncrement > 1
    /\ cfg.maxAgents - scalerResult.metrics.activeAgents > 1
    /\ \E z \in Zones : ZoneCount(z) > ZoneCount(scalerResult.decision.zone)

\* C12: outside cooldown, a decide call whose metrics do not meet the scale-up
\* condition but have queueDepth below the scale-down threshold and activeAgents
\* above minAgents returns scale-down, with targetCount = activeAgents -
\* min(scaleDownIncrement, activeAgents - minAgents), for a zone no other zone has
\* more agents than; when neither condition is met it returns none.
C12_ScaleDownDecision ==
    [][(~InCooldownWindow /\ ~ScaleUpCondition(scalerResult'.metrics) /\ DecideCall) =>
        LET m == scalerResult'.metrics
            d == scalerResult'.decision
            headroom == m.activeAgents - cfg.minAgents
            inc == IF cfg.scaleDownIncrement <= headroom THEN cfg.scaleDownIncrement
                   ELSE headroom
        IN  IF ScaleDownCondition(m)
            THEN /\ d.action = "scale-down"
                 /\ d.targetCount = m.activeAgents - inc
                 /\ \A z \in Zones : ZoneCount(d.zone) >= ZoneCount(z)
            ELSE d.action = "none"]_vars

\* C12 witness: a scale-down was decided whose decrement is the headroom above
\* minAgents, smaller than the configured decrement.
C12_Witness ==
    /\ scalerResult.decision.action = "scale-down"
    /\ scalerResult.metrics.activeAgents - cfg.minAgents < cfg.scaleDownIncrement
    /\ scalerResult.decision.targetCount = cfg.minAgents
    /\ \E z \in Zones : ZoneCount(z) < ZoneCount(scalerResult.decision.zone)

\* C13: a cycle that executes a scale-down decision pauses exactly activeAgents -
\* targetCount agents, all of them active agents of the decided zone, none with
\* more tasksCompleted than an agent of that zone left active, and deletes no agent.
C13_ScaleDownPausesDecrement ==
    [][(scalerResult'.decision.action = "scale-down" /\ RunScalingCycle) =>
        LET m == scalerResult'.metrics
            d == scalerResult'.decision
            paused == {id \in DOMAIN agents : agents'[id] # agents[id]}
            left == {id \in DOMAIN agents :
                        agents'[id].zone = d.zone /\ agents'[id].status = "active"}
        IN  /\ DOMAIN agents' = DOMAIN agents
            /\ Cardinality(paused) = m.activeAgents - d.targetCount
            /\ \A id \in paused :
                    /\ agents[id].zone = d.zone
                    /\ agents[id].status = "active"
                    /\ agents'[id] = [agents[id] EXCEPT !.status = "paused"]
                    /\ \A other \in left :
                            agents[id].tasksCompleted <= agents[other].tasksCompleted]_vars

\* the scaler over a registry whose writes may reject
NextScalerFaults == RunScalingCycle \/ FailedScalingCycle \/ Tick

SpecScalerFaults == InitScaler /\ [][NextScalerFaults]_vars

\* C21: a scale-up decision has targetCount <= maxAgents and a scale-down decision
\* has targetCount >= minAgents, whatever the metrics and the configuration.
C21_TargetWithinBounds ==
    /\ scalerResult.decision.action = "scale-up" =>
            scalerResult.decision.targetCount <= cfg.maxAgents
    /\ scalerResult.decision.action = "scale-down" =>
            scalerResult.decision.targetCount >= cfg.minAgents

\* C21 witness: a scale-up whose configured increment exceeds the headroom was
\* decided with targetCount = maxAgents.
C21_Witness ==
    /\ scalerResult.decision.action = "scale-up"
    /\ cfg.scaleUpIncrement > cfg.maxAgents - scalerResult.metrics.activeAgents
    /\ scalerResult.metrics.queueDepth \div QueueDepthDivisor >
            cfg.maxAgents - scalerResult.metrics.activeAgents
    /\ scalerResult.decision.targetCount = cfg.maxAgents

\* configurations whose queue-depth thresholds are low: scale-up above a depth of
\* less than QueueDepthDivisor jobs
LowThresholdConfigs ==
    {[c EXCEPT !.scaleUpQueueDepth = UpQueueDepth \div 2 - 1,
               !.scaleDownQueueDepth = DownQueueDepth \div 2] : c \in ScalingConfigs}

InitScalerAnyConfig ==
    /\ agents \in ScalerFleets
    /\ cfg \in ScalingConfigs \cup LowThresholdConfigs
    /\ ActiveCount(agents) >= cfg.minAgents
    /\ ActiveCount(agents) <= cfg.maxAgents
    /\ now = 0
    /\ lastScalingAction = <<>>
    /\ lastExecuted = <<>>
    /\ scalerResult = NoResult
    /\ HealerIdle
    /\ monThreshold = MaxThreshold
    /\ MonitorIdle
    /\ OthersIdle

\* the scaler under any configuration the constructor accepts
SpecScalerAnyConfig == InitScalerAnyConfig /\ [][NextScaler]_vars

\* C36: under a configuration with positive increments, a scale-up decision has
\* targetCount > activeAgents and a scale-down decision has targetCount <
\* activeAgents, whatever the metrics.
C36_DecisionChangesFleetSize ==
    /\ scalerResult.decision.action = "scale-up" =>
            scalerResult.decision.targetCount > scalerResult.metrics.activeAgents
    /\ scalerResult.decision.action = "scale-down" =>
            scalerResult.decision.targetCount < scalerResult.metrics.activeAgents

\* scaling cycles of one AutoScaler that overlap
NextScalerOverlap == CycleDecide \/ CycleExecute \/ Tick

SpecScalerOverlap == InitScaler /\ [][NextScalerOverlap]_vars

\* C34: when scaling cycles of one AutoScaler overlap, a cycle executes a scale-up
\* or scale-down decision only if no such decision was executed during the
\* cooldown period before: at most one per cooldown window.
C34_OneExecutionPerWindow ==
    [][(/\ Cardinality(scaleInFlight') < Cardinality(scaleInFlight)
        /\ scalerResult'.executed) => ~InCooldownWindow]_vars

\* C27: a cycle that decides scale-up or scale-down and hands the decision to
\* executeScaling stamps the cooldown with the time of the call, also when a call
\* inside executeScaling fails; a cycle that decides none leaves the stamp alone.
C27_StampIffExecuted ==
    [][(now' = now /\ (RunScalingCycle \/ FailedScalingCycle)) =>
        IF scalerResult'.decision.action = "none"
        THEN lastScalingAction' = lastScalingAction
        ELSE lastScalingAction' = <<now>>]_vars

\* C29: the activeAgents metric of a cycle is the number of registered agents whose
\* status is active.
C29_MetricCountsActive ==
    [][(now' = now /\ RunScalingCycle) =>
        scalerResult'.metrics.activeAgents = ActiveCount(agents)]_vars

----------------------------------------------------------------------------
(* The healer over a registry nobody else writes *)

\* an agent the monitor has marked (or is about to mark) and a healthy one elsewhere
HealerFleets ==
    {[id \in {<<"infer", "railway", 0>>, <<"exec", "pi", 0>>} |->
        IF id = <<"infer", "railway", 0>>
        THEN Row(<<0, 0>>, "infer", "railway", st, 100, <<isoNow(0)>>, 0, 0, FALSE)
        ELSE Row(<<0, 1>>, "exec", "pi", "active", 100, <<isoNow(0)>>, 0, 0, FALSE)] :
     st \in {"error", "active"}}

ScalerIdle ==
    /\ cfg = CHOOSE c \in ScalingConfigs : TRUE
    /\ lastScalingAction = <<>>
    /\ lastExecuted = <<>>
    /\ scalerResult = NoResult

InitHealer ==
    /\ agents \in HealerFleets
    /\ now = 0
    /\ ScalerIdle
    /\ HealerIdle
    /\ monThreshold = MaxThreshold
    /\ MonitorIdle
    /\ OthersIdle

NextHealer == HealAgent \/ Tick

SpecHealer == InitHealer /\ [][NextHealer]_vars

----------------------------------------------------------------------------
(* The registry under agents' calls, and the monitor's cycle over it *)

InitMonitor ==
    /\ agents = <<>>
    /\ now = 0
    /\ ScalerIdle
    /\ HealerIdle
    /\ monThreshold \in 0..MaxThreshold
    /\ MonitorIdle
    /\ OthersIdle

NextMonitor ==
    \/ RegisterHealthyAgent
    \/ UpdateHeartbeat
    \/ MonitorMetrics
    \/ MonitorFetchStale
    \/ MonitorMark
    \/ MonitorReturn
    \/ TickMonitor

SpecMonitor == InitMonitor /\ [][NextMonitor]_vars

\* the monitor beside an operator who takes agents offline
NextOffline ==
    \/ RegisterHealthyAgent
    \/ TakeOffline
    \/ MonitorMetrics
    \/ MonitorFetchStale
    \/ MonitorMark
    \/ MonitorReturn
    \/ TickMonitor

SpecOffline == InitMonitor /\ [][NextOffline]_vars

\* the registry under updateHeartbeat calls that overlap
NextHeartbeat ==
    \/ RegisterHealthyAgent
    \/ HeartbeatStamp
    \/ HeartbeatWrite
    \/ FailTask
    \/ TickMonitor

SpecHeartbeat == InitMonitor /\ [][NextHeartbeat]_vars

\* C26: under updateHeartbeat calls that overlap, an agent's lastHeartbeat never
\* moves backwards, and a heartbeat whose timestamp is older than a failure already
\* recorded for the agent does not change its healthScore.
C26_HeartbeatLastWriteWins ==
    [][\A id \in DOMAIN agents :
        /\ agents[id].lastHeartbeat # <<>> =>
            /\ agents'[id].lastHeartbeat # <<>>
            /\ ~textLess(agents'[id].lastHeartbeat[1], agents[id].lastHeartbeat[1])
        /\ \A h \in hbInFlight \ hbInFlight' :
            (h.id = id /\ id \in DOMAIN failedAt /\ h.at < failedAt[id]) =>
                agents'[id].healthScore = agents[id].healthScore]_vars

\* the sum of the per-zone totals
RECURSIVE SumTotals(_, _)
SumTotals(byZone, S) ==
    IF S = {} THEN 0
    ELSE LET z == CHOOSE x \in S : TRUE
         IN  byZone[z].total + SumTotals(byZone, S \ {z})

\* C32: in the metrics getHealthMetrics returned, healthy + unhealthy = total
\* overall and in each zone, the per-zone totals sum to the overall total, and the
\* healthy percentage is 0 when there are no agents.
C32_MetricsAddUp ==
    monPc \in {"metrics", "marking"} =>
        /\ monMetrics.healthyAgents + monMetrics.unhealthyAgents = monMetrics.totalAgents
        /\ \A z \in Zones :
            monMetrics.byZone[z].healthy + monMetrics.byZone[z].unhealthy
                = monMetrics.byZone[z].total
        /\ SumTotals(monMetrics.byZone, Zones) = monMetrics.totalAgents
        /\ monMetrics.totalAgents = 0 => monMetrics.healthPercentage = 0

\* C32 witness: metrics over agents of two zones, one healthy and one active but
\* stale.
C32_Witness ==
    /\ monPc = "metrics"
    /\ monMetrics.healthyAgents = 1
    /\ monMetrics.unhealthyAgents = 1
    /\ monMetrics.staleAgents = 1
    /\ \E y, z \in Zones :
        /\ y # z
        /\ monMetrics.byZone[y].healthy = 1
        /\ monMetrics.byZone[z].unhealthy = 1

\* C35: at any instant, for the monitor's threshold, the registry's stale set is
\* the set of active agents isAgentHealthy takes for unhealthy, an agent whose
\* heartbeat is exactly the threshold old included.
C35_StaleIsActiveUnhealthy ==
    getStaleAgents(agents, monThreshold, now) =
        {id \in DOMAIN agents :
            /\ agents[id].status = "active"
            /\ ~isAgentHealthy(agents[id], monThreshold, now)}

\* C38: the result of a monitor cycle is consistent with itself: actionsTaken and
\* metrics.staleAgents both equal the number of staleAgents returned.
C38_CycleResultConsistent ==
    monResult.returned =>
        /\ monResult.actionsTaken = Cardinality(monResult.staleAgents)
        /\ monResult.metrics.staleAgents = Cardinality(monResult.staleAgents)

\* C22: whatever the interleaving of the monitor cycle with operator actions, an
\* agent whose status is offline keeps that status: a cycle that read the agent
\* before it went offline does not write another status over it.
C22_OfflineSurvivesRaces ==
    [][\A id \in DOMAIN agents :
            agents[id].status = "offline" => agents'[id].status = "offline"]_vars

\* C23: the monitor writes error on an agent only if, at the moment of the write,
\* the agent is still active and still stale.
C23_ErrorOnlyIfStillStale ==
    [][(monPc = "marking" /\ MonitorMark) =>
        \A id \in DOMAIN agents :
            (agents'[id] # agents[id]) =>
                id \in getStaleAgents(agents, monThreshold, now)]_vars

\* the steps of runHealthCheckCycle
MonitorStep == MonitorMetrics \/ MonitorFetchStale \/ MonitorMark \/ MonitorReturn

\* C30: a step of the monitor cycle registers no agent and changes nothing in the
\* registry but the status of agents of the stale set it fetched; the metrics step
\* and the fetch of the stale set change nothing at all.
C30_MonitorWritesStatusOnly ==
    [][(now' = now /\ MonitorStep) =>
        /\ DOMAIN agents' = DOMAIN agents
        /\ \A id \in DOMAIN agents :
            /\ agents'[id] = [agents[id] EXCEPT !.status = agents'[id].status]
            /\ id \notin monStale => agents'[id] = agents[id]
        /\ monPc # "marking" => agents' = agents]_vars

\* C30 witness: a cycle returned that marked one agent error while another agent,
\* outside its stale set, is still active.
C30_Witness ==
    /\ monPc = "done"
    /\ errWritten # {}
    /\ \E id \in errWritten :
        /\ agents[id].status = "error"
        /\ agents[id].healthScore = 100
    /\ \E id \in DOMAIN agents \ monResult.staleAgents :
        /\ agents[id].status = "active"
        /\ agents[id].lastHeartbeat # <<>>

NextRegistry ==
    \/ RegisterAgent
    \/ UpdateHeartbeat
    \/ IncrementTasksFailed
    \/ TickMonitor

SpecRegistry == InitMonitor /\ [][NextRegistry]_vars

NextLifecycle ==
    \/ RegisterHealthyAgent
    \/ UpdateAgentStatus
    \/ UpdateHeartbeat
    \/ IncrementTasksCompleted
    \/ IncrementTasksFailed
    \/ TickMonitor

SpecLifecycle == InitMonitor /\ [][NextLifecycle]_vars

\* the registry behind its cache, with components that write to the registry itself
NextCache ==
    \/ CacheRegisterInsert
    \/ CacheRegisterPut
    \/ CacheGetLookup
    \/ CacheGetRead
    \/ CacheGetPut
    \/ CacheHeartbeatWrite
    \/ CacheInvalidate
    \/ UpdateAgentStatus

SpecCache == InitMonitor /\ [][NextCache]_vars

NextHealAll == HealAllStart \/ HealAllSettle \/ HealAllReturn

SpecHealAll == InitHealer /\ [][NextHealAll]_vars

\* the job router beside a registered fleet
InitRouter == InitHealer

NextRouter == AddJob \/ ProcessJob

SpecRouter == InitRouter /\ [][NextRouter]_vars

\* C3: an agent whose restarts failed MAX_RESTART_ATTEMPTS times in a row is
\* taken down the replace branch by the next heal call, which does not run
\* restartAgent; no agent has more than MAX_RESTART_ATTEMPTS failed restarts in a row.
C3_NoRestartBeyondCeiling ==
    /\ \A id \in Ids : consecFails[id] <= MAX_RESTART_ATTEMPTS
    /\ (healResult.called /\ healResult.priorFails >= MAX_RESTART_ATTEMPTS)
            => (healResult.branch = "replace" /\ ~healResult.restartRan)

\* C3 witness: a heal call found three failed restarts in a row and replaced the agent.
C3_Witness ==
    /\ healResult.called
    /\ healResult.priorFails = MAX_RESTART_ATTEMPTS
    /\ healResult.branch = "replace"
    /\ healResult.success

\* C4: after heal restarted an agent successfully, that agent's restart counter is 0.
C4_CounterResetOnSuccess ==
    (healResult.called /\ healResult.branch = "restart" /\ healResult.success)
        => getRestartCount(restartCounts, healResult.agentId) = 0

\* C4 witness: the successful restart was attempt 2, after one failed attempt.
C4_Witness ==
    /\ healResult.called
    /\ healResult.branch = "restart"
    /\ healResult.success
    /\ healResult.priorCount = 1
    /\ healResult.priorFails = 1
    /\ getRestartCount(restartCounts, healResult.agentId) = 0

\* C5: once heal has replaced agent X, X's registry status stays error and no later
\* heal call runs a restart on X.
C5_ReplacedStaysExcluded ==
    \A x \in replaced : agents[x].status = "error" /\ x \notin restartedAfter

\* C6: whenever heal replaces agent X, exactly one agent Y is added to the registry;
\* Y has X's capability and zone, status active, healthScore 100, and an id that is
\* neither X's nor that of any agent registered before.
C6_ReplacementInherits ==
    [][(HealAgent /\ healResult'.branch = "replace" /\ healResult'.success) =>
        \E y \in DOMAIN agents' \ DOMAIN agents :
            LET x == healResult'.agentId
            IN  /\ DOMAIN agents' = DOMAIN agents \cup {y}
                /\ x \in DOMAIN agents
                /\ y # x
                /\ healResult'.replacementId = <<y>>
                /\ agents'[y].capability = agents[x].capability
                /\ agents'[y].zone = agents[x].zone
                /\ agents'[y].status = "active"
                /\ agents'[y].healthScore = 100
                /\ \A i \in DOMAIN agents \ {x} : agents'[i] = agents[i]]_vars

\* C6 witness: a replacement has been registered for an agent of the registry.
C6_Witness ==
    /\ healResult.called
    /\ healResult.branch = "replace"
    /\ healResult.success
    /\ healResult.replacementId # <<>>
    /\ healResult.replacementId[1] \in DOMAIN agents
    /\ agents[healResult.replacementId[1]].replacement
    /\ agents[healResult.agentId].status = "error"

\* C7: every registered agent has 0 <= healthScore <= 100, after any sequence of
\* register, updateHeartbeat and incrementTasksFailed calls.
C7_HealthScoreInRange ==
    \A id \in DOMAIN agents :
        agents[id].healthScore >= 0 /\ agents[id].healthScore <= 100

\* C7 witness: a failure was recorded for an agent whose score was below the
\* penalty, and the score stopped at 0.
C7_Witness ==
    \E id \in DOMAIN agents :
        agents[id].tasksFailed > 0 /\ agents[id].healthScore = 0

\* C8: an agent with status active and no lastHeartbeat is unhealthy for
\* isAgentHealthy and is in getStaleAgents, for every threshold, in every state from
\* its registration on.
C8_NoHeartbeatIsStale ==
    \A id \in DOMAIN agents :
        (agents[id].status = "active" /\ agents[id].lastHeartbeat = <<>>) =>
            \A th \in 0..(MaxThreshold + 1) :
                /\ ~isAgentHealthy(agents[id], th, now)
                /\ id \in getStaleAgents(agents, th, now)

\* C8 witness: an active agent that has never sent a heartbeat, beside one that has.
C8_Witness ==
    \E id, other \in DOMAIN agents :
        /\ agents[id].status = "active"
        /\ agents[id].lastHeartbeat = <<>>
        /\ agents[other].status = "active"
        /\ isAgentHealthy(agents[other], MaxThreshold, now)

\* C9: when a monitor cycle returns, every agent that was active with no heartbeat
\* or with one older than the threshold when the stale set was fetched is in the
\* returned staleAgents and has had updateStatus(id, 'error') applied.
C9_StaleAgentsMarked ==
    monPc = "done" =>
        \A e \in expectedStale :
            /\ e[1] \in monResult.staleAgents
            /\ e[1] \in errWritten
            /\ agents[e[1]].status = "error"

\* C9 witness: a returned cycle under a threshold of a minute or more that found
\* one agent stale by the age of its heartbeat and another for having none.
C9_Witness ==
    /\ monPc = "done"
    /\ monResult.returned
    /\ monThreshold >= 1
    /\ \E e, f \in expectedStale :
        /\ e[2] # <<>>
        /\ f[2] = <<>>
        /\ agents[e[1]].status = "error"
        /\ e[1] \in monResult.staleAgents

\* C14: once an agent's status is offline, no registry mutation (updateAgentStatus,
\* updateHeartbeat, incrementTasksCompleted, incrementTasksFailed) changes its record.
C14_OfflineIsTerminal ==
    [][\A id \in DOMAIN agents :
            agents[id].status = "offline" => agents'[id] = agents[id]]_vars

\* C15: a register call for an id or a hash that a registered agent already has
\* fails and leaves the registry and the cache as they were; no two registered
\* agents share a hash (nor an id: the table holds one row per id).
C15_DuplicateRejected ==
    /\ [](\A i, j \in DOMAIN agents : i # j => agents[i].hash # agents[j].hash)
    /\ [][(CacheRegisterInsert /\ registerResult'.duplicate) =>
            /\ ~registerResult'.ok
            /\ agents' = agents
            /\ kv' = kv]_vars

\* C15 witness: with an agent registered and cached, a register call for another id
\* with that agent's hash was rejected.
C15_Witness ==
    /\ registerResult.called
    /\ registerResult.duplicate
    /\ ~registerResult.ok
    /\ registerResult.id[1] \notin DOMAIN agents
    /\ DOMAIN agents # {}
    /\ DOMAIN kv = DOMAIN agents

\* C19: whenever no registerAgent / updateHeartbeat call of the cache is under way,
\* every entry the cache would serve for an id equals the registry's record of that
\* id, so a cached getAgent never returns a record older than the last completed
\* mutation.
C19_CacheNeverStale ==
    cacheMut.pc = "idle" =>
        \A id \in DOMAIN kv :
            kvGet(kv, id, now) # <<>> => kvGet(kv, id, now) = getAgent(agents, id)

\* C16: every job held by a zone's queue has a priority in 1..10.
C16_QueuedPrioritiesInRange ==
    \A z \in Zones : \A k \in 1..Len(queues[z]) :
        queues[z][k].priority >= 1 /\ queues[z][k].priority <= 10

\* C20: when a job finishes, the registry record of the agent that executed it has
\* tasksCompleted one higher after a success, tasksFailed one higher after a failure.
C20_CountersFollowJobs ==
    [][ProcessJob =>
        LET a == lastJob'.agentId[1]
        IN  IF lastJob'.success
            THEN agents'[a].tasksCompleted = agents[a].tasksCompleted + 1
            ELSE agents'[a].tasksFailed = agents[a].tasksFailed + 1]_vars

StatusEdges ==
    {<<"active", "paused">>, <<"paused", "active">>, <<"active", "error">>,
     <<"error", "active">>, <<"active", "offline">>, <<"error", "offline">>}

\* C17: every change the healer makes to an agent's status is an edge of the status
\* state machine: active to paused and back, active to error, error to active,
\* active or error to offline.
C17_StatusFollowsStateMachine ==
    [][\A id \in DOMAIN agents :
            agents'[id].status # agents[id].status =>
                <<agents[id].status, agents'[id].status>> \in StatusEdges]_vars

\* healAllFailed over a registry that may leave a call unanswered; a call whose
\* awaits are all answered settles, and Promise.all settles once it can
NextHealAllHang == HealAllStart \/ HealAllHang \/ HealAllSettle \/ HealAllReturn

SpecHealAllFair ==
    /\ InitHealer
    /\ [][NextHealAllHang]_vars
    /\ WF_vars(HealAllSettle)
    /\ WF_vars(HealAllReturn)

\* C25: every heal call eventually returns, also when a call it awaits is never
\* answered.
C25_HealEventuallyReturns ==
    \A x \in Ids : (x \in healAllPending) ~> (x \notin healAllPending)

\* the fleet the driver starts over: one agent that never sent a heartbeat beside
\* one that just did
DriverFleets ==
    {[id \in {<<"infer", "railway", 0>>, <<"exec", "pi", 0>>} |->
        IF id = <<"infer", "railway", 0>>
        THEN Row(<<0, 0>>, "infer", "railway", "active", 100, <<>>, 0, 0, FALSE)
        ELSE Row(<<0, 1>>, "exec", "pi", "active", 100, hb, 0, 0, FALSE)] :
     hb \in {<<>>, <<isoNow(0)>>}}

InitDriver ==
    /\ agents \in DriverFleets
    /\ now = 0
    /\ ScalerIdle
    /\ HealerIdle
    /\ monThreshold = MaxThreshold
    /\ MonitorIdle
    /\ OthersIdle

\* monitor, then healer, cycle after cycle
NextDriver ==
    \/ DriverMonitor
    \/ MonitorFetchStale
    \/ MonitorMark
    \/ MonitorReturn
    \/ DriverHeal
    \/ HealAllSettle
    \/ HealAllReturn

SpecDriverFair ==
    /\ InitDriver
    /\ [][NextDriver]_vars
    /\ WF_vars(DriverMonitor)
    /\ WF_vars(MonitorFetchStale)
    /\ WF_vars(MonitorMark)
    /\ WF_vars(MonitorReturn)
    /\ WF_vars(DriverHeal)
    /\ WF_vars(HealAllSettle)
    /\ WF_vars(HealAllReturn)

\* agent x is active again after a restart that succeeded, or a replace of x was
\* reported, registered or failed
Recovered(x) ==
    \/ /\ x \in DOMAIN agents
       /\ agents[x].status = "active"
       /\ \E i \in DOMAIN healingHistory :
            healingHistory[i] = HealingAction(x, "restart", TRUE)
    \/ \E i \in DOMAIN healingHistory :
            /\ healingHistory[i].agentId = x
            /\ healingHistory[i].action = "replace"

\* C24: with monitor-then-healer cycles repeating, every agent a cycle found stale
\* is eventually active again after a successful restart, or replaced, or its failed
\* replace reported.
C24_StaleEventuallyRecovered ==
    \A x \in Ids :
        (monPc = "done" /\ x \in monResult.staleAgents) ~> Recovered(x)

\* the healer's history and its statistics
NextStats == PushHealingAction \/ GetStats \/ Tick

SpecStats == InitHealer /\ [][NextStats]_vars

\* the entries pushed during the last timePeriodMs milliseconds before second t
RecordedWithin(timePeriodMs, t) ==
    {i \in DOMAIN statsHistory :
        (t - statsHistory[i].pushedAt) * MsPerSecond < timePeriodMs}

\* C31: getStats(window) counts exactly the actions recorded during the trailing
\* window: restarted the successful restarts, replaced the successful replacements,
\* failed the unsuccessful actions among them.
C31_StatsCountTrailingWindow ==
    [][(statsHistory' = statsHistory /\ now' = now /\ GetStats) =>
        LET r == statsResult'[1]
            within == RecordedWithin(r.timePeriodMs, r.at)
        IN  /\ r.stats.restarted = Cardinality({i \in within :
                    statsHistory[i].action = "restart" /\ statsHistory[i].success})
            /\ r.stats.replaced = Cardinality({i \in within :
                    statsHistory[i].action = "replace" /\ statsHistory[i].success})
            /\ r.stats.failed = Cardinality({i \in within : ~statsHistory[i].success})]_vars

\* healAgent calls that overlap, of the same agent too
NextHealOverlap == HealBegin \/ HealEnd

SpecHealOverlap == InitHealer /\ [][NextHealOverlap]_vars

\* C39: whatever heal calls run, one after another or overlapping on the same
\* agent, every restart counter stays between 0 and the ceiling, and an agent's
\* counter is 0 right after its successful restart and right after its replace.
C39_RestartCountWithinCeiling ==
    /\ [](\A id \in DOMAIN restartCounts :
            restartCounts[id] >= 0 /\ restartCounts[id] <= MAX_RESTART_ATTEMPTS)
    /\ [][Len(healingHistory') > Len(healingHistory) =>
            LET last == healingHistory'[Len(healingHistory')]
            IN  (last.success \/ last.action = "replace") =>
                    getRestartCount(restartCounts', last.agentId) = 0]_vars

\* C39 witness: two heal calls of one agent are under way together and have taken
\* its counter to the ceiling.
C39_Witness ==
    \E c, d \in healInFlight :
        /\ c # d
        /\ c.agentId = d.agentId
        /\ c.branch = "restart" /\ d.branch = "restart"
        /\ getRestartCount(restartCounts, c.agentId) = MAX_RESTART_ATTEMPTS

\* the StateManager under set, delete and a sync to Cloudflare KV
NextStateManager == Set \/ Delete \/ SyncStart \/ SyncPut \/ SyncResponse \/ SyncReturn

SpecStateManager == InitMonitor /\ [][NextStateManager]_vars

\* C37: an item of the StateManager is synced only if the value and the version it
\* holds are the ones uploaded under its key; a set() during the await of the
\* key's upload leaves the key pending.
C37_SyncedMeansUploaded ==
    \A key \in DOMAIN states :
        states[key].syncStatus = "synced" =>
            /\ key \in DOMAIN cloudflareKv
            /\ cloudflareKv[key].value = states[key].value
            /\ cloudflareKv[key].version = states[key].version

\* the Worker's handlers over a registry that agents register with and report to
NextHttp ==
    \/ RegisterHealthyAgent
    \/ UpdateHeartbeat
    \/ TickMonitor
    \/ Scheduled
    \/ KvExpire
    \/ GetHealth
    \/ GetHealthStale
    \/ PostHealthCheck

SpecHttp == InitMonitor /\ [][NextHttp]_vars

\* C33: a health endpoint that found no stored health data, or whose triggered
\* cycle failed, answers with an explicit error payload: it neither answers with
\* data nor leaves the handler by an exception.
C33_ErrorPayloadWhenNoData ==
    httpResponse # <<>> =>
        ((httpResponse[1].noData \/ httpResponse[1].cycleFailed) =>
            /\ ~httpResponse[1].threw
            /\ httpResponse[1].body[1] = "error")

\* C28: a heal call never throws: whatever registry or provisioning call fails
\* inside it, it returns a HealingAction and has appended exactly that one entry to
\* the history.
C28_HealNeverThrows ==
    [][(now' = now /\ HealAgent) =>
        /\ ~healResult'.thrown
        /\ healingHistory' =
                Append(healingHistory,
                       HealingAction(healResult'.agentId, healResult'.branch,
                                     healResult'.success))]_vars

\* C18: once a healAllFailed call has returned, every agent of its batch whose own
\* healAgent call resolved has that call's HealingAction in the returned list,
\* whatever happened to the other agents of the batch.
C18_HealAllReportsEveryAgent ==
    healAllResult.returned =>
        \A x \in healAllResult.batch \ (healAllRejected \cup healAllPending) :
            /\ x \in DOMAIN healAllResult.actions
            /\ healAllResult.actions[x] = healAllActions[x]

====
